---- MODULE Spec2Model ----
(***************************************************************************)
(* Verification model of the PDF processing pipeline:                      *)
(*   PipelineProcessor.process_file   (src/src/pipeline/pipeline_processor.py) *)
(*   DatabaseManager ledger           (src/database.py)                    *)
(*   PDFFileHandler / FileMonitor / BatchProcessor                         *)
(*                                    (src/src/pipeline/file_monitor.py)   *)
(*   FormatDetector, OCRProcessor, TextExtractor, DocumentClassifier,      *)
(*   ElasticsearchIndexer             (src/src/pipeline/*.py)              *)
(*                                                                         *)
(* Two threads run process_file: the main thread (startup scan of          *)
(* FileMonitor, or BatchProcessor) and the watchdog observer thread that   *)
(* dispatches filesystem events to PDFFileHandler.  Every ledger call and  *)
(* every collaborator call of process_file is one step, so the two         *)
(* threads interleave between them.                                        *)
(***************************************************************************)
EXTENDS Integers, Sequences, FiniteSets, TLC

\* ------------------------------------------------------------------ bounds
\* process_file invocations per run (caps stats['total_processed'])
MaxCalls == 2
\* filesystem changes made by the environment per run
MaxEnv == 1
\* events waiting for the handler when a writer goes on writing a file the
\* handler is waiting on
MaxQueue == 1

\* ------------------------------------------------------------- the universe
\* A path is <<stem, extension>>; str.endswith(ext) compares the extension.
DirOrder == << <<"a", ".pdf">>, <<"b", ".PDF">>, <<"n", ".txt">> >>
Paths == { DirOrder[i] : i \in 1..Len(DirOrder) }
\* os.walk / os.listdir: the files among a set of names, in directory order
ListDir(names) == SelectSeq(DirOrder, LAMBDA p : p \in names)
NoPath == <<"", "">>
Threads == {"main", "obs"}

\* File sizes of existing files; a path that does not exist has no size.
Sizes == {1, 2}
NoFile == [exists |-> FALSE, size |-> 0]
File(sz) == [exists |-> TRUE, size |-> sz]

\* Text of one page (or of a whole document): empty, whitespace only,
\* ordinary words.
Texts == {"", " ", "words"}
\* Page texts of a document: up to two pages
PageLists == {<<>>} \cup {<<a>> : a \in Texts} \cup {<<"", "">>, <<"words", "">>}
\* Averaged page scores of the format detector, in tenths
Scores == {1, 4, 6, 9}

\* str.strip(): whitespace-only text becomes empty
Strip(text) == IF text = " " THEN "" ELSE text

\* '\n\n--- Page Break ---\n\n'.join(all_text): no page gives '', one page its
\* text, several pages their texts with the separator between them.  The
\* joined value keeps the page texts and the separator apart.
PageBreak == "--- Page Break ---"
JoinPages(all_text) ==
    IF Len(all_text) = 0 THEN ""
    ELSE IF Len(all_text) = 1 THEN all_text[1]
    ELSE IF \E i \in 1..Len(all_text) : Strip(all_text[i]) # ""
         THEN "words"
         ELSE PageBreak

\* Config.PROCESSED_EXTENSION: the marker of path p is the file p + '.processed';
\* the model keeps the set of paths whose marker file exists.
PROCESSED_EXTENSION == ".processed"
\* file_path + Config.PROCESSED_EXTENSION: the name of the marker file
MarkerFile(file_path) == Append(file_path, PROCESSED_EXTENSION)

NoId == <<"None">>
NoError == "None"

\* ElasticsearchIndexer.generate_document_id: md5 of the path string
GenerateDocumentId(file_path) == <<"md5", file_path[1], file_path[2]>>


\* ------------------------------------------------------------ collaborators
\* Every collaborator operator returns a record with the field raised: TRUE
\* when the Python call raises instead of returning.

\* FormatDetector.detect_format.  opened: fitz.open succeeded; pages: number
\* of pages; avg_text, avg_image: the averaged page scores in tenths.
\* confidence is in hundredths.
\* (first two variants: one that decides a tie of the scores for
\* machine_readable, one without the except clause of lines 121-127)
DetectFormatTieText(opened, pages, avg_text, avg_image) ==
    IF ~opened
    THEN [raised |-> FALSE, type |-> "unknown", confidence |-> 0, error |-> "open_error"]
    ELSE IF pages = 0
    THEN [raised |-> FALSE, type |-> "unknown", confidence |-> 0, error |-> "No pages found"]
    ELSE IF avg_text > 5 /\ avg_image < 3
    THEN [raised |-> FALSE, type |-> "machine_readable", confidence |-> 10 * avg_text, error |-> NoError]
    ELSE IF avg_image > 5 /\ avg_text < 2
    THEN [raised |-> FALSE, type |-> "scanned", confidence |-> 10 * avg_image, error |-> NoError]
    ELSE IF avg_text >= avg_image
    THEN [raised |-> FALSE, type |-> "machine_readable", confidence |-> 7 * avg_text, error |-> NoError]
    ELSE [raised |-> FALSE, type |-> "scanned", confidence |-> 7 * avg_image, error |-> NoError]

DetectFormatNoExcept(opened, pages, avg_text, avg_image) ==
    IF ~opened
    THEN [raised |-> TRUE, type |-> "unknown", confidence |-> 0, error |-> "open_error"]
    ELSE IF pages = 0
    THEN [raised |-> FALSE, type |-> "unknown", confidence |-> 0, error |-> "No pages found"]
    ELSE IF avg_text > 5 /\ avg_image < 3
    THEN [raised |-> FALSE, type |-> "machine_readable", confidence |-> 10 * avg_text, error |-> NoError]
    ELSE IF avg_image > 5 /\ avg_text < 2
    THEN [raised |-> FALSE, type |-> "scanned", confidence |-> 10 * avg_image, error |-> NoError]
    ELSE IF avg_text > avg_image
    THEN [raised |-> FALSE, type |-> "machine_readable", confidence |-> 7 * avg_text, error |-> NoError]
    ELSE [raised |-> FALSE, type |-> "scanned", confidence |-> 7 * avg_image, error |-> NoError]

DetectFormat(opened, pages, avg_text, avg_image) ==
    IF ~opened
    THEN [raised |-> FALSE, type |-> "unknown", confidence |-> 0, error |-> "open_error"]
    ELSE IF pages = 0
    THEN [raised |-> FALSE, type |-> "unknown", confidence |-> 0, error |-> "No pages found"]
    ELSE IF avg_text > 5 /\ avg_image < 3
    THEN [raised |-> FALSE, type |-> "machine_readable", confidence |-> 10 * avg_text, error |-> NoError]
    ELSE IF avg_image > 5 /\ avg_text < 2
    THEN [raised |-> FALSE, type |-> "scanned", confidence |-> 10 * avg_image, error |-> NoError]
    ELSE IF avg_text > avg_image
    THEN [raised |-> FALSE, type |-> "machine_readable", confidence |-> 7 * avg_text, error |-> NoError]
    ELSE [raised |-> FALSE, type |-> "scanned", confidence |-> 7 * avg_image, error |-> NoError]

\* OCRProcessor.extract_text_from_pdf.  ok: no exception inside; page_texts:
\* the OCR text of each page (already stripped by _extract_text_from_image).
\* (The Python result has no 'success' key and process_file does not read
\* one on this branch; the field only gives the records one shape.)
OcrExtractTextFromPdf(ok, page_texts) ==
    IF ok
    THEN [raised |-> FALSE, text |-> JoinPages([i \in 1..Len(page_texts) |-> Strip(page_texts[i])]),
          success |-> TRUE, method |-> "ocr"]
    ELSE [raised |-> FALSE, text |-> "", success |-> FALSE, method |-> "ocr"]

\* TextExtractor._extract_with_pdfminer
ExtractWithPdfminer(ok, text) ==
    IF ok
    THEN [raised |-> FALSE, text |-> Strip(text), success |-> TRUE, method |-> "pdfminer"]
    ELSE [raised |-> FALSE, text |-> "", success |-> FALSE, method |-> "pdfminer"]

\* TextExtractor._extract_with_pymupdf
ExtractWithPymupdf(ok, page_texts) ==
    IF ok
    THEN [raised |-> FALSE, text |-> Strip(JoinPages(page_texts)), success |-> TRUE, method |-> "pymupdf"]
    ELSE [raised |-> FALSE, text |-> "", success |-> FALSE, method |-> "pymupdf"]

\* TextExtractor.use_pymupdf_fallback as PipelineProcessor constructs it
use_pymupdf_fallback == TRUE

\* TextExtractor.extract_text_from_pdf
ExtractTextFromPdf(ok1, text, ok2, page_texts) ==
    LET result == ExtractWithPdfminer(ok1, text) IN
    IF result.success THEN result
    ELSE IF use_pymupdf_fallback THEN ExtractWithPymupdf(ok2, page_texts)
    ELSE result

\* DocumentClassifier.preprocess_text: lower case, special characters to
\* blanks, words shorter than two characters dropped
PreprocessText(text) ==
    IF text \in {"", " ", "x"} THEN ""
    ELSE IF text = PageBreak THEN "page break"
    ELSE text

\* What the trained model predicts for a text
Categories == {"invoice"}

\* DocumentClassifier.classify_document.  ok: vectorizer and model do not
\* raise; prediction: what the model predicts; confidence in hundredths.
\* (first a variant without the except clause of lines 231-238)
ClassifyDocumentReraise(trained, text, ok, prediction) ==
    IF ~trained
    THEN [raised |-> FALSE, category |-> "other", confidence |-> 0, error |-> "Model not trained"]
    ELSE IF Strip(PreprocessText(text)) = ""
    THEN [raised |-> FALSE, category |-> "other", confidence |-> 0, error |-> "Empty text after preprocessing"]
    ELSE IF ok
    THEN [raised |-> FALSE, category |-> prediction, confidence |-> 90, error |-> NoError]
    ELSE [raised |-> TRUE, category |-> NoError, confidence |-> 0, error |-> "exception"]

ClassifyDocument(trained, text, ok, prediction) ==
    IF ~trained
    THEN [raised |-> FALSE, category |-> "other", confidence |-> 0, error |-> "Model not trained"]
    ELSE IF Strip(PreprocessText(text)) = ""
    THEN [raised |-> FALSE, category |-> "other", confidence |-> 0, error |-> "Empty text after preprocessing"]
    ELSE IF ok
    THEN [raised |-> FALSE, category |-> prediction, confidence |-> 90, error |-> NoError]
    ELSE [raised |-> FALSE, category |-> "other", confidence |-> 0, error |-> "exception"]

\* (a variant of index_document that does not look at is_connected and
\* tries the index at every call)
IndexDocumentReconnect(connected, ok, file_path) ==
    IF ok
    THEN [raised |-> FALSE, success |-> TRUE, document_id |-> GenerateDocumentId(file_path), error |-> NoError]
    ELSE [raised |-> FALSE, success |-> FALSE, document_id |-> NoId, error |-> "exception"]

\* ElasticsearchIndexer.index_document: the result returned to the caller
IndexDocument(connected, ok, file_path) ==
    IF ~connected
    THEN [raised |-> FALSE, success |-> FALSE, document_id |-> NoId, error |-> "Not connected to Elasticsearch"]
    ELSE IF ok
    THEN [raised |-> FALSE, success |-> TRUE, document_id |-> GenerateDocumentId(file_path), error |-> NoError]
    ELSE [raised |-> FALSE, success |-> FALSE, document_id |-> NoId, error |-> "exception"]


\* ------------------------------------------------------------------- state
VARIABLES
    fs,            \* the watched directory: path -> [exists, size]
    markers,       \* paths whose completion marker file exists
    ledger,        \* ProcessingLog table: sequence of records, id = position
    es_docs,       \* the search index: document id -> [file_path, content]
    stats,         \* PipelineProcessor.stats
    is_trained,    \* DocumentClassifier.is_trained
    is_connected,  \* ElasticsearchIndexer.is_connected
    inv,           \* the process_file invocation of each thread
    mode,          \* main.py --mode: "monitor" or "batch"
    dir_exists,    \* batch mode: whether the directory argument exists
    mpc,           \* position of the main thread
    todo,          \* files the main thread's walk has listed and not yet visited
    results,       \* BatchProcessor.process_directory: its return value so far
    exit_code,     \* single-file mode: the exit status of the run
    is_running,    \* FileMonitor.is_running (the observer thread is started)
    queue,         \* watchdog events not yet dispatched
    opc,           \* position of the observer thread
    ev,            \* the event the observer thread is handling
    size1,         \* _is_file_stable: the first size sample
    skip_log,      \* paths for which the watcher logged "already processed, skipping"
    drop_log,      \* paths of modify events given up because the file was not stable
    db_up,         \* whether a ledger call commits (TRUE) or raises (FALSE)
    env,           \* filesystem changes the environment has made
    probe          \* a collaborator called on its own: its arguments and its result

vars == <<fs, markers, ledger, es_docs, stats, is_trained, is_connected, inv, mode,
          dir_exists, mpc, todo, results, exit_code, is_running, queue, opc, ev, size1, skip_log, drop_log,
          db_up, env, probe>>

disk == <<fs, markers, db_up, env>>
setup == <<is_trained, is_connected, mode, dir_exists, probe>>
mainv == <<mpc, todo, results, exit_code, is_running>>
obsv == <<queue, opc, ev, size1>>
logs == <<skip_log, drop_log>>

\* No collaborator is called on its own
NoProbe == [fn |-> "none"]
\* The call has not returned yet
NoOut == [raised |-> FALSE, type |-> "pending"]

\* os.path.exists / os.path.getsize of a name in the watched tree: a document,
\* or the marker file of one
FileAt(p) ==
    IF p \in Paths THEN fs[p]
    ELSE IF \E q \in markers : MarkerFile(q) = p THEN File(1)
    ELSE NoFile

\* ------------------------------------------------------------------ ledger
\* (CreateProcessingLogAtIndexing: a variant whose new row starts at a later stage)
CreateProcessingLogAtIndexing(filename, file_path, file_size) ==
    [filename |-> filename, file_path |-> file_path, file_size |-> file_size,
     status |-> "pending", stage |-> "indexing", error_message |-> NoError,
     document_type |-> "None", classification_result |-> "None",
     elasticsearch_id |-> NoId]

\* DatabaseManager.create_processing_log: the new row
CreateProcessingLog(filename, file_path, file_size) ==
    [filename |-> filename, file_path |-> file_path, file_size |-> file_size,
     status |-> "pending", stage |-> "format_detection", error_message |-> NoError,
     document_type |-> "None", classification_result |-> "None",
     elasticsearch_id |-> NoId]

\* (UpdateProcessingLogByPath: a variant that finds the rows by the path of
\* the row with the id)
UpdateProcessingLogByPath(l, log_id, kwargs) ==
    IF log_id \in 1..Len(l)
    THEN [i \in 1..Len(l) |->
            IF l[i].file_path = l[log_id].file_path
            THEN [f \in DOMAIN l[i] |-> IF f \in DOMAIN kwargs THEN kwargs[f] ELSE l[i][f]]
            ELSE l[i]]
    ELSE l

\* (UpdateProcessingLogLatest: a variant that updates the row created last)
UpdateProcessingLogLatest(l, log_id, kwargs) ==
    IF log_id \in 1..Len(l)
    THEN [l EXCEPT ![Len(l)] =
            [f \in DOMAIN l[Len(l)] |-> IF f \in DOMAIN kwargs THEN kwargs[f] ELSE l[Len(l)][f]]]
    ELSE l

\* DatabaseManager.update_processing_log: an unknown id changes nothing; of
\* the keyword arguments only those that are columns are set.
UpdateProcessingLog(l, log_id, kwargs) ==
    IF log_id \in 1..Len(l)
    THEN [l EXCEPT ![log_id] =
            [f \in DOMAIN l[log_id] |-> IF f \in DOMAIN kwargs THEN kwargs[f] ELSE l[log_id][f]]]
    ELSE l

\* os.path.basename
Basename(file_path) == file_path

\* ------------------------------------------------------------ process_file
IdleFrame ==
    [pc |-> "idle", path |-> NoPath, origin |-> "none", log_id |-> 0,
     doctype |-> "None", text |-> "", method |-> "", category |-> "None",
     confidence |-> 0, cls_error |-> NoError, index_ok |-> FALSE, es_id |-> NoId, error |-> NoError,
     db_raised |-> FALSE, marker |-> "none", result |-> "none"]

\* A caller invokes process_file(file_path): local state of the new call
CallFrame(file_path, origin) ==
    [IdleFrame EXCEPT !.pc = "create", !.path = file_path, !.origin = origin]

\* The keyword arguments of the ledger updates of process_file
\* (Stage1UpdateNoStatus: a variant that leaves the status out)
Stage1UpdateNoStatus == [stage |-> "format_detection"]
\* (Stage1UpdateWithPath: a variant that also passes a file_path keyword)
Stage1UpdateWithPath == [stage |-> "format_detection", status |-> "processing",
                         file_path |-> NoPath]
Stage1Update == [stage |-> "format_detection", status |-> "processing"]
\* (FailedUpdateNoStatus, FinalUpdateNoStage, FinalUpdateNoStatus: variants that
\* leave one keyword argument out)
FailedUpdateNoStatus(error_msg) == [error_message |-> error_msg]
FailedUpdate(error_msg) == [status |-> "failed", error_message |-> error_msg]
FinalUpdateNoStage(elasticsearch_id) ==
    [status |-> "completed", elasticsearch_id |-> elasticsearch_id]
FinalUpdateNoStatus(elasticsearch_id) ==
    [elasticsearch_id |-> elasticsearch_id, stage |-> "completed"]
FinalUpdate(elasticsearch_id) ==
    [status |-> "completed", elasticsearch_id |-> elasticsearch_id, stage |-> "completed"]

\* One ledger update of the invocation of thread t.  DatabaseManager guards
\* none of its calls: the call either commits (db_ok) and the invocation goes
\* on with frame `next`, or raises (no application context, database locked
\* or gone) and control passes to the except handler of process_file with
\* nothing written.
LedgerUpdate(t, kwargs, next, db_ok) ==
    IF db_ok
    THEN /\ ledger' = UpdateProcessingLog(ledger, inv[t].log_id, kwargs)
         /\ inv' = [inv EXCEPT ![t] = next]
    ELSE /\ ledger' = ledger
         /\ inv' = [inv EXCEPT ![t].pc = "handler", ![t].db_raised = TRUE,
                                ![t].method = next.method]

\* Two ledger updates in a row: the second runs only when the first has
\* committed; when the second raises, the first stays written.
LedgerUpdate2(t, kwargs1, kwargs2, next, db_ok1, db_ok2) ==
    IF db_ok1 /\ db_ok2
    THEN /\ ledger' = UpdateProcessingLog(
                          UpdateProcessingLog(ledger, inv[t].log_id, kwargs1),
                          inv[t].log_id, kwargs2)
         /\ inv' = [inv EXCEPT ![t] = next]
    ELSE /\ ledger' = IF db_ok1 THEN UpdateProcessingLog(ledger, inv[t].log_id, kwargs1)
                      ELSE ledger
         /\ inv' = [inv EXCEPT ![t].pc = "handler", ![t].db_raised = TRUE]

\* A failure return of process_file: the record is set failed with the
\* message, stats['failed'] is incremented, the failure result is returned.
FailReturn(t, frame, error_msg, db_ok) ==
    /\ LedgerUpdate(t, FailedUpdate(error_msg),
                    [frame EXCEPT !.pc = "returned", !.result = "failure", !.error = error_msg],
                    db_ok)
    /\ stats' = IF db_ok THEN [stats EXCEPT !.failed = @ + 1] ELSE stats

\* lines 50-61: statistics, file information, ledger record creation
PfCreate(t) ==
    /\ inv[t].pc = "create"
    /\ stats' = [stats EXCEPT !.total_processed = @ + 1]
    /\ LET file_path == inv[t].path
           filename == Basename(file_path)
           file_size == IF FileAt(file_path).exists THEN FileAt(file_path).size ELSE 0
       IN \E db_ok \in {db_up} :
            IF db_ok
            THEN /\ ledger' = Append(ledger, CreateProcessingLog(filename, file_path, file_size))
                 /\ inv' = [inv EXCEPT ![t].pc = "stage1", ![t].log_id = Len(ledger) + 1]
            ELSE /\ ledger' = ledger
                 /\ inv' = [inv EXCEPT ![t].pc = "handler", ![t].db_raised = TRUE]
    /\ UNCHANGED <<disk, es_docs, setup, mainv, obsv, logs>>

\* line 64
PfStage1(t) ==
    /\ inv[t].pc = "stage1"
    /\ \E db_ok \in {db_up} :
         LedgerUpdate(t, Stage1Update, [inv[t] EXCEPT !.pc = "detect"], db_ok)
    /\ UNCHANGED <<disk, es_docs, stats, setup, mainv, obsv, logs>>

\* lines 66-82: format detection, then the record is moved to stage 2
PfDetect(t) ==
    /\ inv[t].pc = "detect"
    /\ \E opened \in BOOLEAN, pages \in 0..1, avg_text \in Scores, avg_image \in Scores,
          db_ok \in {db_up}, db_ok2 \in {db_up} :
         /\ opened => fs[inv[t].path].exists
         /\ LET format_result == DetectFormat(opened, pages, avg_text, avg_image)
                document_type == format_result.type
            IN IF format_result.raised
               THEN /\ inv' = [inv EXCEPT ![t].pc = "handler"]
                    /\ UNCHANGED <<ledger, stats>>
               ELSE IF document_type = "unknown"
               THEN FailReturn(t, inv[t], "Could not determine document format", db_ok)
               ELSE /\ LedgerUpdate2(t, [document_type |-> document_type],
                                     [stage |-> "text_extraction"],
                                     [inv[t] EXCEPT !.pc = "extract", !.doctype = document_type],
                                     db_ok, db_ok2)
                    /\ stats' = stats
    /\ UNCHANGED <<disk, es_docs, setup, mainv, obsv, logs>>

\* line 89: the extractor is chosen by the format decision
\* (first a variant that sends every document to OCR)
UsesOcrAlways(document_type) == TRUE
UsesOcr(document_type) == document_type = "scanned"

\* lines 89-104 and 125: the OCR branch, then the record is moved to stage 3
PfExtractOcr(t) ==
    /\ inv[t].pc = "extract"
    /\ UsesOcr(inv[t].doctype)
    /\ \E ok \in BOOLEAN, page_texts \in PageLists, db_ok \in {db_up} :
         /\ ok => fs[inv[t].path].exists
         /\ LET extraction_result == OcrExtractTextFromPdf(ok, page_texts)
                text_content == extraction_result.text
            IN IF extraction_result.raised
               THEN /\ inv' = [inv EXCEPT ![t].pc = "handler"]
                    /\ UNCHANGED <<ledger, stats>>
               ELSE IF Strip(text_content) = ""
               THEN FailReturn(t, [inv[t] EXCEPT !.method = "ocr"],
                               "OCR extraction failed or produced no text", db_ok)
               ELSE /\ LedgerUpdate(t, [stage |-> "classification"],
                                    [inv[t] EXCEPT !.pc = "classify", !.text = text_content,
                                                   !.method = "ocr"],
                                    db_ok)
                    /\ stats' = stats
    /\ UNCHANGED <<disk, es_docs, setup, mainv, obsv, logs>>

\* lines 106-125: the native branch, then the record is moved to stage 3
PfExtractNative(t) ==
    /\ inv[t].pc = "extract"
    /\ ~UsesOcr(inv[t].doctype)
    /\ \E ok1 \in BOOLEAN, text \in Texts, ok2 \in BOOLEAN, page_texts \in PageLists,
          db_ok \in {db_up} :
         /\ (ok1 \/ ok2) => fs[inv[t].path].exists
         /\ LET extraction_result == ExtractTextFromPdf(ok1, text, ok2, page_texts)
                text_content == extraction_result.text
            IN IF extraction_result.raised
               THEN /\ inv' = [inv EXCEPT ![t].pc = "handler"]
                    /\ UNCHANGED <<ledger, stats>>
               ELSE IF ~extraction_result.success \/ Strip(text_content) = ""
               THEN FailReturn(t, [inv[t] EXCEPT !.method = extraction_result.method],
                               "Text extraction failed or produced no text", db_ok)
               ELSE /\ LedgerUpdate(t, [stage |-> "classification"],
                                    [inv[t] EXCEPT !.pc = "classify", !.text = text_content,
                                                   !.method = extraction_result.method],
                                    db_ok)
                    /\ stats' = stats
    /\ UNCHANGED <<disk, es_docs, setup, mainv, obsv, logs>>

\* lines 127-133: classification, then the record is moved to stage 4
PfClassify(t) ==
    /\ inv[t].pc = "classify"
    /\ \E ok \in BOOLEAN, prediction \in Categories, db_ok \in {db_up}, db_ok2 \in {db_up} :
         LET classification_result == ClassifyDocument(is_trained, inv[t].text, ok, prediction)
             category == classification_result.category
         IN IF classification_result.raised
            THEN /\ inv' = [inv EXCEPT ![t].pc = "handler",
                                       ![t].cls_error = classification_result.error]
                 /\ ledger' = ledger
            ELSE LedgerUpdate2(t, [classification_result |-> category],
                               [stage |-> "indexing"],
                               [inv[t] EXCEPT !.pc = "index", !.category = category,
                                              !.confidence = classification_result.confidence,
                                              !.cls_error = classification_result.error],
                               db_ok, db_ok2)
    /\ UNCHANGED <<disk, es_docs, stats, setup, mainv, obsv, logs>>

\* (first a variant of es.index without id=doc_id: the index gives every
\* document an id of its own)
IndexPutAutoId(docs, index_result, file_path, content) ==
    IF index_result.success
    THEN LET auto == <<"auto", Cardinality(DOMAIN docs)>> IN
         [d \in DOMAIN docs \cup {auto} |->
            IF d = auto THEN [file_path |-> file_path, content |-> content] ELSE docs[d]]
    ELSE docs

\* ElasticsearchIndexer.index_document: what es.index(index, id=doc_id,
\* body=doc) leaves in the index; of doc the model keeps file_path and content
IndexPut(docs, index_result, file_path, content) ==
    IF index_result.success
    THEN [d \in DOMAIN docs \cup {index_result.document_id} |->
            IF d = index_result.document_id
            THEN [file_path |-> file_path, content |-> content] ELSE docs[d]]
    ELSE docs

\* ElasticsearchIndexer.get_document_by_id: the _source of the document, or
\* None when not connected or when es.get raises (no such id)
NoDoc == [file_path |-> NoPath, content |-> "None"]
\* (first a variant that never finds the document)
GetDocumentByIdNever(docs, connected, doc_id) == NoDoc
GetDocumentById(docs, connected, doc_id) ==
    IF ~connected THEN NoDoc
    ELSE IF doc_id \in DOMAIN docs THEN docs[doc_id]
    ELSE NoDoc

\* lines 136-164
PfIndex(t) ==
    /\ inv[t].pc = "index"
    /\ \E ok \in BOOLEAN, db_ok \in {db_up} :
         LET index_result == IndexDocument(is_connected, ok, inv[t].path) IN
         /\ es_docs' = IndexPut(es_docs, index_result, inv[t].path, inv[t].text)
         /\ IF index_result.raised
            THEN /\ inv' = [inv EXCEPT ![t].pc = "handler"]
                 /\ UNCHANGED <<ledger, stats>>
            ELSE IF ~index_result.success
            THEN FailReturn(t, inv[t], "Elasticsearch indexing failed", db_ok)
            ELSE /\ inv' = [inv EXCEPT ![t].pc = "final", ![t].index_ok = TRUE,
                                       ![t].es_id = index_result.document_id]
                 /\ UNCHANGED <<ledger, stats>>
    /\ UNCHANGED <<disk, setup, mainv, obsv, logs>>

\* (a variant of the next action that goes on to the marker when the
\* completed update raises)
PfFinalSwallow(t) ==
    /\ inv[t].pc = "final"
    /\ \E db_ok \in {db_up} :
         IF db_ok
         THEN LedgerUpdate(t, FinalUpdate(inv[t].es_id), [inv[t] EXCEPT !.pc = "mark"], db_ok)
         ELSE /\ ledger' = ledger
              /\ inv' = [inv EXCEPT ![t].pc = "mark"]
    /\ UNCHANGED <<disk, es_docs, stats, setup, mainv, obsv, logs>>

\* lines 166-174
PfFinal(t) ==
    /\ inv[t].pc = "final"
    /\ \E db_ok \in {db_up} :
         LedgerUpdate(t, FinalUpdate(inv[t].es_id), [inv[t] EXCEPT !.pc = "mark"], db_ok)
    /\ UNCHANGED <<disk, es_docs, stats, setup, mainv, obsv, logs>>

\* PipelineProcessor._mark_file_as_processed: the marker file is written;
\* when open() or write() raises, the exception is logged and swallowed.
MarkFileAsProcessed(ms, file_path, io_ok) ==
    IF io_ok THEN ms \cup {file_path} ELSE ms

\* (a variant of the next action in which a marker that cannot be written
\* raises into the except handler of process_file)
PfMarkUnguarded(t) ==
    /\ inv[t].pc = "mark"
    /\ \E io_ok \in BOOLEAN :
         /\ markers' = MarkFileAsProcessed(markers, inv[t].path, io_ok)
         /\ IF io_ok
            THEN /\ inv' = [inv EXCEPT ![t].pc = "returned", ![t].result = "success",
                                       ![t].marker = "written"]
                 /\ stats' = [stats EXCEPT !.successful = @ + 1]
            ELSE /\ inv' = [inv EXCEPT ![t].pc = "handler", ![t].marker = "failed"]
                 /\ stats' = stats
    /\ UNCHANGED <<fs, db_up, env, ledger, es_docs, setup, mainv, obsv, logs>>

\* lines 176-193
PfMark(t) ==
    /\ inv[t].pc = "mark"
    /\ \E io_ok \in BOOLEAN :
         /\ markers' = MarkFileAsProcessed(markers, inv[t].path, io_ok)
         /\ inv' = [inv EXCEPT ![t].pc = "returned", ![t].result = "success",
                                ![t].marker = IF io_ok THEN "written" ELSE "failed"]
    /\ stats' = [stats EXCEPT !.successful = @ + 1]
    /\ UNCHANGED <<fs, db_up, env, ledger, es_docs, setup, mainv, obsv, logs>>

\* lines 195-209: the except handler.  Its own ledger update is not guarded:
\* when it raises, the exception leaves process_file.
PfHandler(t) ==
    /\ inv[t].pc = "handler"
    /\ LET error_msg == "Pipeline processing failed" IN
       IF inv[t].log_id # 0
       THEN \E db_ok \in {db_up} :
              IF db_ok
              THEN /\ ledger' = UpdateProcessingLog(ledger, inv[t].log_id, FailedUpdate(error_msg))
                   /\ stats' = [stats EXCEPT !.failed = @ + 1]
                   /\ inv' = [inv EXCEPT ![t].pc = "returned", ![t].result = "failure",
                                          ![t].error = error_msg]
              ELSE /\ inv' = [inv EXCEPT ![t].pc = "returned", ![t].result = "raised"]
                   /\ UNCHANGED <<ledger, stats>>
       ELSE /\ stats' = [stats EXCEPT !.failed = @ + 1]
            /\ inv' = [inv EXCEPT ![t].pc = "returned", ![t].result = "failure",
                                   ![t].error = error_msg]
            /\ ledger' = ledger
    /\ UNCHANGED <<disk, es_docs, setup, mainv, obsv, logs>>

\* process_file of thread t has returned to its caller (or left by an exception)
Returned(t) == inv[t].pc = "returned"
\* process_file of thread t is running
InFlight(t) == inv[t].pc \notin {"idle", "returned"}

ProcessFile(t) ==
    \/ PfCreate(t) \/ PfStage1(t) \/ PfDetect(t)
    \/ PfExtractOcr(t) \/ PfExtractNative(t) \/ PfClassify(t)
    \/ PfIndex(t) \/ PfFinal(t) \/ PfMark(t) \/ PfHandler(t)


\* ------------------------------------------------------------ the callers
\* str.endswith over a list of extensions
\* (EndsWithAnything: a variant that accepts every name; EndsWithAnyContains:
\* a variant that looks for the extension anywhere in the name)
EndsWithAnything(file_path, extensions) == TRUE
EndsWithAnyContains(file_path, extensions) ==
    \E k \in 1..Len(file_path) : file_path[k] \in extensions
EndsWithAny(file_path, extensions) == file_path[Len(file_path)] \in extensions

\* str.lower() on the extension
Lower(ext) ==
    IF ext \in {".pdf", ".PDF", ".Pdf", ".pDf"} THEN ".pdf"
    ELSE IF ext \in {".txt", ".TXT"} THEN ".txt"
    ELSE ext
\* file.lower().endswith(ext)
LowerEndsWith(file, ext) == Lower(file[Len(file)]) = ext

\* PDFFileHandler.supported_extensions
supported_extensions == {".pdf", ".PDF"}

\* PDFFileHandler._is_already_processed: os.path.exists(path + '.processed')
\* (first a variant that never finds the marker)
IsAlreadyProcessedAlwaysFalse(ms, file_path) == FALSE
\* (and a variant that looks for the marker under the lower-cased name)
IsAlreadyProcessedLower(ms, file_path) == <<file_path[1], Lower(file_path[2])>> \in ms
\* (a variant that also gives up on a path the ledger already has a record for)
IsAlreadyProcessedOrTried(ms, file_path) ==
    file_path \in ms \/ \E i \in 1..Len(ledger) : ledger[i].file_path = file_path
IsAlreadyProcessed(ms, file_path) == file_path \in ms

\* process_file invocations begun so far (stats['total_processed'] counts a
\* call once it has started running)
CallsStarted == stats.total_processed + Cardinality({t \in Threads : inv[t].pc = "create"})
MayCall == CallsStarted < MaxCalls

\* FileMonitor.start_monitoring: the observer thread is started, then
\* _process_existing_files begins and os.walk lists the directory.
StartMonitoring ==
    /\ mode = "monitor" /\ mpc = "start"
    /\ ~is_running
    /\ is_running' = TRUE
    /\ todo' = ListDir({p \in Paths : fs[p].exists})
    /\ mpc' = "scan"
    /\ UNCHANGED <<disk, ledger, es_docs, stats, setup, inv, results, exit_code, obsv, logs>>

\* FileMonitor._process_existing_files, one file of the walk (lines 158-170)
ScanVisit ==
    /\ mpc = "scan" /\ todo # <<>>
    /\ todo' = Tail(todo)
    /\ LET file_path == Head(todo) IN
       IF EndsWithAny(file_path, {".pdf", ".PDF"}) /\ ~IsAlreadyProcessed(markers, file_path)
       THEN /\ MayCall
            /\ inv' = [inv EXCEPT !["main"] = CallFrame(file_path, "scan")]
            /\ mpc' = "scan_call"
       ELSE UNCHANGED <<inv, mpc>>
    /\ UNCHANGED <<disk, ledger, es_docs, stats, setup, results, exit_code, is_running, obsv, logs>>

\* (a variant of the next action without the inner try/except: a call that
\* did not succeed ends the walk)
ScanReturnStopOnFailure ==
    /\ mpc = "scan_call" /\ inv["main"].pc = "returned"
    /\ inv' = [inv EXCEPT !["main"] = IdleFrame]
    /\ todo' = IF inv["main"].result = "success" THEN todo ELSE <<>>
    /\ mpc' = "scan"
    /\ UNCHANGED <<disk, ledger, es_docs, stats, setup, results, exit_code, is_running, obsv, logs>>

\* lines 167-170: process_file has returned, or raised into the inner except
ScanReturn ==
    /\ mpc = "scan_call" /\ inv["main"].pc = "returned"
    /\ inv' = [inv EXCEPT !["main"] = IdleFrame]
    /\ mpc' = "scan"
    /\ UNCHANGED <<disk, ledger, es_docs, stats, setup, todo, results, exit_code, is_running, obsv, logs>>

\* line 172, then FileMonitor.run_forever's wait loop
ScanDone ==
    /\ mpc = "scan" /\ todo = <<>>
    /\ mpc' = "loop"
    /\ UNCHANGED <<disk, ledger, es_docs, stats, setup, inv, todo, results, exit_code, is_running, obsv, logs>>

NoResults == [success |-> "none", error |-> NoError, total_files |-> 0,
              successful |-> 0, failed |-> 0, errors |-> <<>>]

\* (a variant of the next action without the os.path.exists test: os.walk
\* over a missing directory yields nothing)
BatchStartNoCheck ==
    /\ mode = "batch" /\ mpc = "start"
    /\ LET pdf_files == {p \in Paths : fs[p].exists /\ LowerEndsWith(p, ".pdf")} IN
       /\ todo' = ListDir(pdf_files)
       /\ results' = [NoResults EXCEPT !.total_files = Cardinality(pdf_files)]
       /\ mpc' = "batch"
    /\ UNCHANGED <<disk, ledger, es_docs, stats, setup, inv, exit_code, is_running, obsv, logs>>

\* BatchProcessor.process_directory, lines 227-254
BatchStart ==
    /\ mode = "batch" /\ mpc = "start"
    /\ IF ~dir_exists
       THEN /\ results' = [NoResults EXCEPT !.success = "false",
                                            !.error = "Directory does not exist"]
            /\ mpc' = "done"
            /\ todo' = todo
       ELSE LET pdf_files == {p \in Paths : fs[p].exists /\ LowerEndsWith(p, ".pdf")} IN
            /\ todo' = ListDir(pdf_files)
            /\ results' = [NoResults EXCEPT !.total_files = Cardinality(pdf_files)]
            /\ mpc' = "batch"
    /\ UNCHANGED <<disk, ledger, es_docs, stats, setup, inv, exit_code, is_running, obsv, logs>>

\* lines 256-259: the next file of pdf_files is handed to process_file
BatchVisit ==
    /\ mpc = "batch" /\ todo # <<>>
    /\ MayCall
    /\ todo' = Tail(todo)
    /\ inv' = [inv EXCEPT !["main"] = CallFrame(Head(todo), "batch")]
    /\ mpc' = "batch_call"
    /\ UNCHANGED <<disk, ledger, es_docs, stats, setup, results, exit_code, is_running, obsv, logs>>

\* (a variant of the counting without the except clause of lines 271-276)
BatchCountNoExcept(r, frame) ==
    IF frame.result = "success"
    THEN [r EXCEPT !.successful = @ + 1]
    ELSE IF frame.result = "raised"
    THEN r
    ELSE [r EXCEPT !.failed = @ + 1,
                   !.errors = Append(@, [file |-> frame.path, error |-> frame.error])]

\* lines 261-276: the result is counted
BatchCount(r, frame) ==
    IF frame.result = "success"
    THEN [r EXCEPT !.successful = @ + 1]
    ELSE [r EXCEPT !.failed = @ + 1,
                   !.errors = Append(@, [file |-> frame.path,
                                         error |-> IF frame.result = "raised"
                                                   THEN "exception" ELSE frame.error])]

BatchReturn ==
    /\ mpc = "batch_call" /\ inv["main"].pc = "returned"
    /\ results' = BatchCount(results, inv["main"])
    /\ inv' = [inv EXCEPT !["main"] = IdleFrame]
    /\ mpc' = "batch"
    /\ UNCHANGED <<disk, ledger, es_docs, stats, setup, todo, exit_code, is_running, obsv, logs>>

\* lines 278-283
BatchDone ==
    /\ mpc = "batch" /\ todo = <<>>
    /\ results' = [results EXCEPT !.success = "true"]
    /\ mpc' = "done"
    /\ UNCHANGED <<disk, ledger, es_docs, stats, setup, inv, todo, exit_code, is_running, obsv, logs>>

\* main.py run_single_file_processing, lines 127-137.  file_path = NoPath
\* stands for a run without --file.
NoExit == "running"
SingleStart(file_path) ==
    /\ mode = "process" /\ mpc = "start"
    /\ IF file_path = NoPath \/ ~fs[file_path].exists
       THEN /\ exit_code' = "1"
            /\ mpc' = "done"
            /\ inv' = inv
       ELSE /\ MayCall
            /\ inv' = [inv EXCEPT !["main"] = CallFrame(file_path, "single")]
            /\ mpc' = "single_call"
            /\ exit_code' = exit_code
    /\ UNCHANGED <<disk, ledger, es_docs, stats, setup, todo, results, is_running, obsv, logs>>

\* lines 139-148, and main's except clause for an exception out of process_file
SingleReturn ==
    /\ mpc = "single_call" /\ inv["main"].pc = "returned"
    /\ exit_code' = IF inv["main"].result = "success" THEN "0" ELSE "1"
    /\ inv' = [inv EXCEPT !["main"] = IdleFrame]
    /\ mpc' = "done"
    /\ UNCHANGED <<disk, ledger, es_docs, stats, setup, todo, results, is_running, obsv, logs>>

\* main.py run_batch_processing, lines 98-100 and 108-121: the run ends with
\* sys.exit(1) when the directory does not exist (main.py tests it before the
\* call, process_directory once more) or process_directory reports no
\* success, and returns normally, status 0, when there is a report
\* (first a variant that fails the run when a file failed)
BatchExitFailsOnErrors ==
    /\ mode = "batch" /\ mpc = "done" /\ exit_code = NoExit
    /\ exit_code' = IF results.success = "true" /\ results.failed = 0 THEN "0" ELSE "1"
    /\ UNCHANGED <<disk, ledger, es_docs, stats, setup, inv, mpc, todo, results, is_running, obsv, logs>>

BatchExit ==
    /\ mode = "batch" /\ mpc = "done" /\ exit_code = NoExit
    /\ exit_code' = IF results.success = "true" THEN "0" ELSE "1"
    /\ UNCHANGED <<disk, ledger, es_docs, stats, setup, inv, mpc, todo, results, is_running, obsv, logs>>

\* main.py main, lines 42-57: PipelineManager.start() returns False (an
\* exception in test_components or setup_default_classifier) and the run ends
\* with sys.exit(1), or it returns True and the mode's run function is entered
MainStart(started) ==
    /\ mpc = "boot"
    /\ IF started
       THEN /\ mpc' = "start"
            /\ exit_code' = exit_code
       ELSE /\ mpc' = "exited"
            /\ exit_code' = "1"
    /\ UNCHANGED <<disk, ledger, es_docs, stats, setup, inv, todo, results, is_running, obsv, logs>>

\* ------------------------------------------------------ the observer thread
NoEvent == [kind |-> "none", path |-> NoPath]

\* PDFFileHandler._process_file_event on the observer thread: extension,
\* marker, existence and readability are checked and process_file is called.
ProcessFileEvent(file_path, readable) ==
    IF ~EndsWithAny(file_path, supported_extensions)
    THEN /\ inv' = inv /\ opc' = "idle" /\ skip_log' = skip_log
    ELSE IF IsAlreadyProcessed(markers, file_path)
    THEN /\ inv' = inv /\ opc' = "idle" /\ skip_log' = skip_log \cup {file_path}
    ELSE IF ~FileAt(file_path).exists \/ ~readable
    THEN /\ inv' = inv /\ opc' = "idle" /\ skip_log' = skip_log
    ELSE /\ MayCall
         /\ inv' = [inv EXCEPT !["obs"] = CallFrame(file_path, "event")]
         /\ opc' = "call"
         /\ skip_log' = skip_log

\* The observer thread takes events from its queue: it has been started and
\* observer.stop() has not been called
Dispatching == is_running /\ mpc # "stopping"

\* (a variant of on_created that waits out the settle window first, as
\* on_modified does)
OnCreatedDebounced ==
    /\ Dispatching /\ opc = "idle" /\ queue # <<>>
    /\ Head(queue).kind = "created"
    /\ queue' = Tail(queue)
    /\ opc' = "settle"
    /\ ev' = Head(queue)
    /\ size1' = FileAt(Head(queue).path).size
    /\ UNCHANGED <<disk, ledger, es_docs, stats, setup, mainv, inv, logs>>

\* PDFFileHandler.on_created
OnCreated ==
    /\ Dispatching /\ opc = "idle" /\ queue # <<>>
    /\ Head(queue).kind = "created"
    /\ queue' = Tail(queue)
    /\ \E readable \in BOOLEAN : ProcessFileEvent(Head(queue).path, readable)
    /\ UNCHANGED <<disk, ledger, es_docs, stats, setup, mainv, ev, size1, drop_log>>

\* PDFFileHandler.on_moved (the path is the event's dest_path)
OnMoved ==
    /\ Dispatching /\ opc = "idle" /\ queue # <<>>
    /\ Head(queue).kind = "moved"
    /\ queue' = Tail(queue)
    /\ \E readable \in BOOLEAN : ProcessFileEvent(Head(queue).path, readable)
    /\ UNCHANGED <<disk, ledger, es_docs, stats, setup, mainv, ev, size1, drop_log>>

\* PDFFileHandler._is_file_stable after its sleep: the file still exists and
\* its size is the size of the first sample
\* (IsFileStableAlways: a variant that does not compare)
IsFileStableAlways(first_size, f) == TRUE
IsFileStable(first_size, f) == f.exists /\ f.size = first_size

\* PDFFileHandler.on_modified up to the sleep of _is_file_stable
OnModified ==
    /\ Dispatching /\ opc = "idle" /\ queue # <<>>
    /\ Head(queue).kind = "modified"
    /\ queue' = Tail(queue)
    /\ IF ~FileAt(Head(queue).path).exists
       THEN /\ drop_log' = drop_log \cup {Head(queue).path}
            /\ UNCHANGED <<opc, ev, size1>>
       ELSE /\ opc' = "settle"
            /\ ev' = Head(queue)
            /\ size1' = FileAt(Head(queue).path).size
            /\ drop_log' = drop_log
    /\ UNCHANGED <<disk, ledger, es_docs, stats, setup, mainv, inv>>
    /\ skip_log' = skip_log

\* _is_file_stable after the sleep, and the rest of on_modified
OnModifiedSettled ==
    /\ opc = "settle"
    /\ ev' = NoEvent /\ size1' = 0
    /\ IF IsFileStable(size1, FileAt(ev.path))
       THEN /\ \E readable \in BOOLEAN : ProcessFileEvent(ev.path, readable)
            /\ drop_log' = drop_log
       ELSE /\ opc' = "idle"
            /\ drop_log' = drop_log \cup {ev.path}
            /\ inv' = inv /\ skip_log' = skip_log
    /\ UNCHANGED <<disk, ledger, es_docs, stats, setup, mainv, queue>>

\* _process_file_event, lines 60-63: process_file has returned, or raised
\* into the except clause
EventReturn ==
    /\ opc = "call" /\ inv["obs"].pc = "returned"
    /\ inv' = [inv EXCEPT !["obs"] = IdleFrame]
    /\ opc' = "idle"
    /\ UNCHANGED <<disk, ledger, es_docs, stats, setup, mainv, queue, ev, size1, logs>>

\* ---------------------------------------------------------------- shutdown
\* Ctrl+C while FileMonitor.run_forever runs: KeyboardInterrupt is raised in
\* the main thread, wherever it is.  It is no Exception, so no except clause
\* of process_file, _process_existing_files or start_monitoring catches it:
\* a process_file call of the startup scan is left where it stands, and
\* run_forever's handler (lines 187-189) calls stop_monitoring.
Interrupt ==
    /\ mode = "monitor" /\ mpc \in {"scan", "scan_call", "loop"}
    /\ inv' = IF InFlight("main")
              THEN [inv EXCEPT !["main"].pc = "returned", !["main"].result = "interrupted"]
              ELSE inv
    /\ todo' = <<>>
    /\ mpc' = "stopping"
    /\ UNCHANGED <<disk, ledger, es_docs, stats, setup, results, exit_code, is_running, obsv, logs>>

\* FileMonitor.stop_monitoring: observer.stop(), then observer.join() returns
\* once the observer thread has finished the event it is handling; events
\* still queued are not delivered.
StopMonitoring ==
    /\ mpc = "stopping" /\ opc = "idle"
    /\ is_running' = FALSE
    /\ mpc' = "done"
    /\ UNCHANGED <<disk, ledger, es_docs, stats, setup, inv, todo, results, exit_code, obsv, logs>>

\* ---------------------------------------------------------- the environment
\* What watchdog queues for a change while the observer runs
Emit(q, kind, file_path) ==
    IF is_running THEN Append(q, [kind |-> kind, path |-> file_path]) ELSE q

\* The file names that occur in the directory of a run
Dir(m) == IF m = "process" THEN { <<"a", ".pdf">> } ELSE Paths

\* A path the program still has before it: listed and not yet visited, being
\* processed, or named by an event not yet handled
Pending(p) ==
    \/ \E i \in 1..Len(todo) : todo[i] = p
    \/ \E t \in Threads : inv[t].path = p
    \/ \E i \in 1..Len(queue) : queue[i].path = p
    \/ ev.path = p

\* The environment is followed while the program works on the directory;
\* what it did before is part of the initial state.  A file that appears or
\* changes is followed while the observer watches; a file that vanishes and a
\* database that fails are followed in every mode.
EnvActive == dir_exists /\ mpc \notin {"start", "done"} /\ env < MaxEnv

EnvCreate(p, sz) ==
    /\ EnvActive /\ is_running
    /\ p \in Dir(mode)
    /\ ~fs[p].exists
    /\ fs' = [fs EXCEPT ![p] = File(sz)]
    /\ queue' = Emit(queue, "created", p)
    /\ env' = env + 1
    /\ UNCHANGED <<markers, db_up, ledger, es_docs, stats, setup, inv, mainv, opc, ev, size1, logs>>

EnvModify(p, sz) ==
    /\ EnvActive /\ is_running
    /\ fs[p].exists /\ fs[p].size # sz
    /\ fs' = [fs EXCEPT ![p] = File(sz)]
    /\ queue' = Emit(queue, "modified", p)
    /\ env' = env + 1
    /\ UNCHANGED <<markers, db_up, ledger, es_docs, stats, setup, inv, mainv, opc, ev, size1, logs>>

\* A file is renamed to its final name (a finished download or copy)
EnvMove(src, dest) ==
    /\ EnvActive /\ is_running
    /\ ~EndsWithAny(src, supported_extensions) /\ EndsWithAny(dest, supported_extensions)
    /\ fs[src].exists /\ ~fs[dest].exists
    /\ fs' = [fs EXCEPT ![src] = NoFile, ![dest] = fs[src]]
    /\ queue' = Emit(queue, "moved", dest)
    /\ env' = env + 1
    /\ UNCHANGED <<markers, db_up, ledger, es_docs, stats, setup, inv, mainv, opc, ev, size1, logs>>

\* A deletion: PDFFileHandler has no on_deleted, the event is dropped
EnvDelete(p) ==
    /\ EnvActive /\ Pending(p)
    /\ fs[p].exists
    /\ fs' = [fs EXCEPT ![p] = NoFile]
    /\ env' = env + 1
    /\ UNCHANGED <<markers, db_up, ledger, es_docs, stats, setup, inv, mainv, obsv, logs>>

\* The writer of the file whose settle window the handler is waiting out goes
\* on: it writes more (watchdog queues another modify event) or removes the
\* file (no handler for deletions)
EnvWrite(p, f) ==
    /\ is_running /\ opc = "settle" /\ ev.path = p
    /\ fs[p].exists /\ f # fs[p]
    /\ Len(queue) < MaxQueue
    /\ fs' = [fs EXCEPT ![p] = f]
    /\ queue' = IF f.exists THEN Emit(queue, "modified", p) ELSE queue
    /\ UNCHANGED <<markers, db_up, env, ledger, es_docs, stats, setup, inv, mainv, opc, ev, size1, logs>>

\* Files arrive in the watched directory one after the other, as many as
\* there are names
EnvArrive(p) ==
    /\ is_running /\ mpc # "done"
    /\ ~fs[p].exists
    /\ fs' = [fs EXCEPT ![p] = File(1)]
    /\ queue' = Emit(queue, "created", p)
    /\ UNCHANGED <<markers, db_up, env, ledger, es_docs, stats, setup, inv, mainv, opc, ev, size1, logs>>

\* The database becomes unavailable, or available again
EnvDatabase ==
    /\ mpc \notin {"start", "done"} /\ env < MaxEnv
    /\ db_up' = ~db_up
    /\ env' = env + 1
    /\ UNCHANGED <<fs, markers, ledger, es_docs, stats, setup, inv, mainv, obsv, logs>>

\* --------------------------------------------------------- the whole system
\* What PipelineManager.start found: a trained classifier and a reachable
\* index, or neither
Setups == {<<TRUE, TRUE>>, <<FALSE, FALSE>>}

\* The state after construction, for one --mode of main.py.  Files exist
\* under the names of Dir(m); a marker is left by an earlier run beside a
\* file that is still there.
InitAt(m, pc) ==
    /\ mode = m
    /\ dir_exists \in BOOLEAN
    /\ m # "batch" => dir_exists
    /\ fs \in [Paths -> {NoFile, File(1)}]
    /\ \A p \in Paths \ Dir(m) : ~fs[p].exists
    /\ markers \in SUBSET {p \in Paths : EndsWithAny(p, supported_extensions) /\ fs[p].exists}
    /\ ~dir_exists => (\A p \in Paths : ~fs[p].exists)
    /\ ledger = <<>>
    /\ es_docs = <<>>
    /\ stats = [total_processed |-> 0, successful |-> 0, failed |-> 0]
    /\ \E su \in Setups : is_trained = su[1] /\ is_connected = su[2]
    /\ inv = [t \in Threads |-> IdleFrame]
    /\ mpc = pc
    /\ todo = <<>>
    /\ results = NoResults
    /\ exit_code = NoExit
    /\ is_running = FALSE
    /\ queue = <<>>
    /\ opc = "idle"
    /\ ev = NoEvent
    /\ size1 = 0
    /\ skip_log = {}
    /\ drop_log = {}
    /\ db_up \in BOOLEAN
    /\ m = "monitor" =>
          /\ is_trained /\ is_connected /\ db_up
          /\ fs[<<"n", ".txt">>].exists
    /\ env = 0
    /\ probe = NoProbe

\* The state when the mode's run function of main.py is entered
InitMode(m) == InitAt(m, "start")

\* --mode process: one file through process_file
NextProcess ==
    \/ ProcessFile("main")
    \/ \E file_path \in Paths \cup {NoPath} : SingleStart(file_path)
    \/ SingleReturn
    \/ \E p \in Paths : EnvDelete(p)
    \/ EnvDatabase

\* --mode batch: BatchProcessor over a directory
NextBatch ==
    \/ ProcessFile("main")
    \/ BatchStart
    \/ BatchVisit
    \/ BatchReturn
    \/ BatchDone
    \/ \E p \in Paths : EnvDelete(p)
    \/ EnvDatabase

\* --mode monitor: FileMonitor with its observer thread
NextMonitor ==
    \/ \E t \in Threads : ProcessFile(t)
    \/ StartMonitoring
    \/ ScanVisit
    \/ ScanReturn
    \/ ScanDone
    \/ OnCreated
    \/ OnMoved
    \/ OnModified
    \/ OnModifiedSettled
    \/ EventReturn
    \/ \E p \in Paths : EnvCreate(p, 1)
    \/ \E p \in Paths, sz \in Sizes : EnvModify(p, sz)
    \/ \E src \in Paths, dest \in Paths : EnvMove(src, dest)
    \/ \E p \in Paths : EnvDelete(p)
    \/ EnvDatabase

\* lines 176-193 in a watched tree: the marker file is created and written
\* inside the directory the observer watches, and watchdog queues the events
PfMarkWatched(t) ==
    /\ inv[t].pc = "mark"
    /\ \E io_ok \in BOOLEAN :
         /\ markers' = MarkFileAsProcessed(markers, inv[t].path, io_ok)
         /\ inv' = [inv EXCEPT ![t].pc = "returned", ![t].result = "success",
                                ![t].marker = IF io_ok THEN "written" ELSE "failed"]
         /\ queue' = IF io_ok
                     THEN Emit(Emit(queue, "created", MarkerFile(inv[t].path)),
                               "modified", MarkerFile(inv[t].path))
                     ELSE queue
    /\ stats' = [stats EXCEPT !.successful = @ + 1]
    /\ UNCHANGED <<fs, db_up, env, ledger, es_docs, setup, mainv, opc, ev, size1, logs>>

\* --mode monitor with the events of the marker files: the markers are
\* written inside the watched tree, which is watched recursively
NextMarker ==
    \/ \E t \in Threads :
          \/ PfCreate(t) \/ PfStage1(t) \/ PfDetect(t)
          \/ PfExtractOcr(t) \/ PfExtractNative(t) \/ PfClassify(t)
          \/ PfIndex(t) \/ PfFinal(t) \/ PfMarkWatched(t) \/ PfHandler(t)
    \/ StartMonitoring
    \/ ScanVisit
    \/ ScanReturn
    \/ ScanDone
    \/ OnCreated
    \/ OnModified
    \/ OnModifiedSettled
    \/ EventReturn
    \/ \E p \in Paths : EnvCreate(p, 1)
    \/ EnvDatabase

\* --mode monitor where the only changes are writes to existing files, which
\* may go on while their modify events are handled
NextSettle ==
    \/ \E t \in Threads : ProcessFile(t)
    \/ StartMonitoring
    \/ ScanVisit
    \/ ScanReturn
    \/ ScanDone
    \/ OnModified
    \/ OnModifiedSettled
    \/ EventReturn
    \/ \E p \in Paths, sz \in Sizes : EnvModify(p, sz)
    \/ \E p \in Paths, f \in {NoFile} \cup {File(sz) : sz \in Sizes} : EnvWrite(p, f)
    \/ EnvDatabase

\* --mode monitor until Ctrl+C: files appear, the run is interrupted
NextShutdown ==
    \/ \E t \in Threads : ProcessFile(t)
    \/ StartMonitoring
    \/ ScanVisit
    \/ ScanReturn
    \/ ScanDone
    \/ OnCreated
    \/ EventReturn
    \/ \E p \in Paths : EnvCreate(p, 1)
    \/ EnvDatabase
    \/ Interrupt
    \/ StopMonitoring

\* --mode monitor while files keep arriving
NextLive ==
    \/ \E t \in Threads : ProcessFile(t)
    \/ StartMonitoring
    \/ ScanVisit
    \/ ScanReturn
    \/ ScanDone
    \/ OnCreated
    \/ EventReturn
    \/ \E p \in Paths : EnvArrive(p)
    \/ EnvDatabase

\* --mode monitor while files arrive whose writer is not done with them
NextWriting ==
    \/ \E t \in Threads : ProcessFile(t)
    \/ StartMonitoring
    \/ ScanVisit
    \/ ScanReturn
    \/ ScanDone
    \/ OnCreated
    \/ OnMoved
    \/ OnModified
    \/ OnModifiedSettled
    \/ EventReturn
    \/ \E p \in Paths : EnvArrive(p)
    \/ \E p \in Paths, sz \in Sizes :
          InFlight("obs") /\ inv["obs"].path = p /\ EnvModify(p, sz)
    \/ \E src \in Paths, dest \in Paths : EnvMove(src, dest)
    \/ EnvDatabase

\* ---------------------------------------------- collaborators on their own
\* The rest of the program at rest while one collaborator is called
AtRest ==
    /\ dir_exists = TRUE
    /\ fs = [p \in Paths |-> NoFile]
    /\ markers = {}
    /\ ledger = <<>>
    /\ es_docs = <<>>
    /\ stats = [total_processed |-> 0, successful |-> 0, failed |-> 0]
    /\ is_trained = TRUE /\ is_connected = TRUE
    /\ inv = [t \in Threads |-> IdleFrame]
    /\ mpc = "start"
    /\ todo = <<>>
    /\ results = NoResults
    /\ exit_code = NoExit
    /\ is_running = FALSE
    /\ queue = <<>>
    /\ opc = "idle"
    /\ ev = NoEvent
    /\ size1 = 0
    /\ skip_log = {}
    /\ drop_log = {}
    /\ db_up = TRUE
    /\ env = 0

\* Averaged page scores run from 0.0 to 1.0 (min(..., 1.0)), here in tenths
MaxScore == 10
\* Page counts of the documents given to detect_format
PageCounts == {0, 1, 3}

\* FormatDetector.detect_format is called on a document: whether it can be
\* opened and analysed, its page count, its averaged scores
InitDetect ==
    /\ mode = "detect"
    /\ AtRest
    /\ \E opened \in BOOLEAN, pages \in PageCounts, avg_text \in 0..MaxScore, avg_image \in 0..MaxScore :
          probe = [fn |-> "detect_format", opened |-> opened, pages |-> pages,
                   avg_text |-> avg_text, avg_image |-> avg_image, out |-> NoOut]

DetectFormatCall ==
    /\ mode = "detect" /\ probe.out = NoOut
    /\ probe' = [probe EXCEPT !.out = DetectFormat(probe.opened, probe.pages,
                                                   probe.avg_text, probe.avg_image)]
    /\ UNCHANGED <<disk, ledger, es_docs, stats, is_trained, is_connected, mode, dir_exists,
                   inv, mainv, obsv, logs>>

SpecDetect == InitDetect /\ [][DetectFormatCall]_vars

\* Suffixes of file names, in several spellings
Suffixes == {".pdf", ".PDF", ".Pdf", ".pDf", ".txt", ".TXT", PROCESSED_EXTENSION}
\* File names with one suffix or two (a.pdf, a.Pdf.txt, b.pdf.processed)
FileNames ==
    {<<stem, e>> : stem \in {"a", "b"}, e \in Suffixes}
        \cup {<<stem, e1, e2>> : stem \in {"a", "b"}, e1 \in Suffixes, e2 \in Suffixes}

\* One file name is put before the three places that select files by name
InitAccept ==
    /\ mode = "accept"
    /\ AtRest
    /\ \E file \in FileNames : probe = [fn |-> "accept", file |-> file, out |-> NoOut]

\* The test of _process_file_event, of _process_existing_files and of
\* process_directory on the name
AcceptCall ==
    /\ mode = "accept" /\ probe.out = NoOut
    /\ probe' = [probe EXCEPT !.out =
                    [handler |-> EndsWithAny(probe.file, supported_extensions),
                     scan |-> EndsWithAny(probe.file, {".pdf", ".PDF"}),
                     batch |-> LowerEndsWith(probe.file, ".pdf")]]
    /\ UNCHANGED <<disk, ledger, es_docs, stats, is_trained, is_connected, mode, dir_exists,
                   inv, mainv, obsv, logs>>

SpecAccept == InitAccept /\ [][AcceptCall]_vars

\* main.py main from the start of the pipeline to the exit of the run.  A
\* monitor run is followed to the entry of run_file_monitor: it ends only
\* by an interrupt.
InitMain == \E m \in {"process", "batch", "monitor"} : InitAt(m, "boot")
NextMain ==
    \/ \E started \in BOOLEAN : MainStart(started)
    \/ NextProcess
    \/ NextBatch
    \/ BatchExit
SpecMain == InitMain /\ [][NextMain]_vars

SpecProcess == InitMode("process") /\ [][NextProcess]_vars
SpecBatch == InitMode("batch") /\ [][NextBatch]_vars
SpecMarker == InitMode("monitor") /\ [][NextMarker]_vars
SpecWriting == InitMode("monitor") /\ [][NextWriting]_vars
SpecMonitor == InitMode("monitor") /\ [][NextMonitor]_vars
SpecSettle == InitMode("monitor") /\ [][NextSettle]_vars
SpecShutdown == InitMode("monitor") /\ [][NextShutdown]_vars
SpecLive == InitMode("monitor") /\ [][NextLive]_vars

\* Any mode
Init == \E m \in {"process", "batch", "monitor"} : InitMode(m)
Next == NextProcess \/ NextBatch \/ NextMonitor
Spec == Init /\ [][Next]_vars

\* ------------------------------------------------------------------ claims
\* The ledger record the invocation of thread t created
HasRecord(t) == inv[t].log_id \in 1..Len(ledger)
OwnRecord(t) == ledger[inv[t].log_id]

\* C1 (as stated): when a process_file call has returned a result, the call
\* has created a ledger record of its own and that record's status is
\* completed or failed -- whatever the path and whatever the collaborators,
\* the ledger among them, did.
C1_OneTerminalRecord ==
    \A t \in Threads :
        Returned(t) /\ inv[t].result \in {"success", "failure"} =>
            /\ HasRecord(t)
            /\ OwnRecord(t).status \in {"completed", "failed"}

\* C1 (amended): a process_file call creates at most one ledger record, and
\* exactly one unless create_processing_log itself raises; in that case no
\* record exists and the call returns the failure "Pipeline processing
\* failed".  When the call returns a result and has a record, the record is
\* of the call's path and its status is completed or failed, never pending or
\* processing.
C1_OneTerminalRecordUnlessCreateRaises ==
    /\ Len(ledger) <= stats.total_processed
    /\ \A t \in Threads, u \in Threads :
          t # u /\ inv[t].log_id # 0 => inv[t].log_id # inv[u].log_id
    /\ \A t \in Threads :
          /\ inv[t].log_id # 0 => HasRecord(t) /\ OwnRecord(t).file_path = inv[t].path
          /\ inv[t].pc \notin {"idle", "create", "handler", "returned"} => inv[t].log_id # 0
          /\ Returned(t) /\ inv[t].result \in {"success", "failure"} =>
                IF inv[t].log_id = 0
                THEN /\ inv[t].db_raised
                     /\ inv[t].result = "failure"
                     /\ inv[t].error = "Pipeline processing failed"
                ELSE OwnRecord(t).status \in {"completed", "failed"}

\* Two calls have returned, one with a completed and one with a failed record
C1_Witness ==
    /\ Len(ledger) = 2
    /\ ledger[1].status = "completed"
    /\ ledger[2].status = "failed"
    /\ Returned("main") /\ inv["main"].log_id = 2

\* C2: process_file never lets an exception reach its caller: every call
\* ends by returning a result, and a failure result carries the error text
\* -- also when a ledger update raises.
C2_NeverPropagates ==
    \A t \in Threads :
        Returned(t) =>
            /\ inv[t].result \in {"success", "failure"}
            /\ inv[t].result = "failure" => inv[t].error # NoError

\* C3: every ledger record with status completed has stage completed and an
\* index id, and every ledger record with status failed has an error message.
C3_RecordInvariant ==
    \A i \in 1..Len(ledger) :
        /\ ledger[i].status = "completed" =>
              /\ ledger[i].stage = "completed"
              /\ ledger[i].elasticsearch_id # NoId
        /\ ledger[i].status = "failed" => ledger[i].error_message # NoError

\* The ledger holds a completed record and a failed record
C3_Witness ==
    /\ \E i \in 1..Len(ledger) : ledger[i].status = "completed"
    /\ \E i \in 1..Len(ledger) : ledger[i].status = "failed"

\* C4: when process_file has returned success, the marker file of its path
\* exists.
C4_SuccessHasMarker ==
    \A t \in Threads :
        Returned(t) /\ inv[t].result = "success" =>
            inv[t].path \in markers

\* C5: a marker file is written only by an invocation that is past its final
\* ledger update, whose own record has status completed and which returns
\* success; an invocation that fails or raises has written no marker.
C5_MarkerOnlyAfterCompleted ==
    [][ /\ \A t \in Threads :
              inv[t].marker = "none" /\ inv'[t].marker # "none" =>
                  /\ inv[t].pc = "mark"
                  /\ HasRecord(t) /\ OwnRecord(t).status = "completed"
                  /\ inv'[t].result = "success"
        /\ \A p \in Paths :
              p \in markers' /\ p \notin markers =>
                  \E t \in Threads :
                      /\ inv[t].pc = "mark" /\ inv[t].path = p
                      /\ HasRecord(t) /\ OwnRecord(t).status = "completed"
                      /\ inv'[t].marker = "written"
        /\ \A t \in Threads :
              inv'[t].result \in {"failure", "raised"} => inv'[t].marker = "none"
      ]_vars

\* A call has written the marker of a file that had none, and another call
\* has failed
C5_Witness ==
    /\ \E t \in Threads :
          /\ Returned(t) /\ inv[t].marker = "written"
          /\ inv[t].path \in markers
    /\ \E i \in 1..Len(ledger) :
          ledger[i].status = "failed" /\ ledger[i].file_path \notin markers

\* C6: BatchProcessor never hands process_file a file whose marker exists.
C6_BatchSkipsMarked ==
    \A t \in Threads :
        inv[t].origin = "batch" /\ inv[t].pc = "create" =>
            inv[t].path \notin markers

\* C7: the watcher -- the event handler and the startup scan -- never starts
\* process_file on a path whose marker exists when it examines the path, and
\* skipping such a path changes neither the ledger nor any invocation.
C7_WatcherSkipsMarked ==
    [][ /\ \A t \in Threads :
              /\ inv[t].pc = "idle" /\ inv'[t].pc = "create"
              /\ inv'[t].origin \in {"scan", "event"}
              => inv'[t].path \notin markers
        /\ skip_log' # skip_log => inv' = inv /\ ledger' = ledger /\ opc' = "idle"
        /\ (/\ mpc = "scan" /\ todo # <<>> /\ todo' = Tail(todo)
            /\ Head(todo) \in markers)
           => inv' = inv /\ ledger' = ledger /\ mpc' = "scan"
      ]_vars

\* The scan has passed a marked file and the handler has skipped an event for
\* a marked file, with no ledger record made
C7_Witness ==
    /\ mpc = "loop"
    /\ skip_log # {}
    /\ skip_log \subseteq markers
    /\ ledger = <<>>

\* C8: the handler starts process_file for a live event only after the
\* startup scan has completed.
C8_ScanBeforeEvents ==
    opc = "call" => mpc = "loop"

\* C9: within one watcher at most one process_file invocation is in flight.
C9_OneInFlight ==
    ~(InFlight("main") /\ InFlight("obs"))

\* C10: when the classifier fails inside stage 3 (and no ledger call of the
\* invocation raises), process_file goes on with category "other" and
\* confidence 0, the indexing stage runs, and the call returns success with a
\* completed record if indexing succeeds; only an indexing failure fails it.
C10_ClassifierFailureDegrades ==
    \A t \in Threads :
        inv[t].cls_error = "exception" /\ ~inv[t].db_raised =>
            /\ inv[t].pc \in {"index", "final", "mark", "returned"}
            /\ inv[t].category = "other" /\ inv[t].confidence = 0
            /\ HasRecord(t) /\ OwnRecord(t).classification_result = "other"
            /\ Returned(t) =>
                  IF inv[t].index_ok
                  THEN /\ inv[t].result = "success"
                       /\ OwnRecord(t).status = "completed"
                       /\ inv[t].es_id \in DOMAIN es_docs
                  ELSE /\ inv[t].result = "failure"
                       /\ inv[t].error = "Elasticsearch indexing failed"

\* A call whose classification raised inside the classifier has returned
\* success with a completed record
C10_Witness ==
    \E t \in Threads :
        /\ Returned(t) /\ inv[t].cls_error = "exception"
        /\ inv[t].result = "success"
        /\ OwnRecord(t).status = "completed"
        /\ OwnRecord(t).classification_result = "other"

\* The extraction stage of the invocation of thread t has run and found no
\* text on any page: nothing at all, or nothing but page-break separators
ExtractedNothing(t) ==
    inv[t].method # "" /\ inv[t].text \in {"", PageBreak}

\* The invocation of thread t has failed: result failure, its record failed
\* at the given stage with a message, no marker written
FailedAt(t, stage) ==
    /\ Returned(t) /\ inv[t].result = "failure"
    /\ HasRecord(t)
    /\ OwnRecord(t).status = "failed"
    /\ OwnRecord(t).stage = stage
    /\ OwnRecord(t).error_message # NoError
    /\ inv[t].marker = "none"

\* C11: when a fatal stage fails -- the format is unknown, the extraction
\* yields empty or blank text, the index call fails -- (and no ledger call
\* raises) the record ends failed at that stage with a message, process_file
\* returns a failure and no collaborator of a later stage has been invoked.
C11_FatalStageFails ==
    \A t \in Threads :
        ~inv[t].db_raised =>
            /\ inv[t].error = "Could not determine document format" =>
                  /\ FailedAt(t, "format_detection")
                  /\ inv[t].method = "" /\ inv[t].category = "None" /\ ~inv[t].index_ok
            /\ ExtractedNothing(t) =>
                  /\ FailedAt(t, "text_extraction")
                  /\ inv[t].category = "None" /\ ~inv[t].index_ok
            /\ inv[t].error = "Elasticsearch indexing failed" =>
                  FailedAt(t, "indexing")

\* The stage whose collaborator the invocation calls next at a position
StageAtPc(pc) ==
    CASE pc = "detect" -> "format_detection"
      [] pc = "extract" -> "text_extraction"
      [] pc = "classify" -> "classification"
      [] pc = "index" -> "indexing"

\* C12: whenever the collaborator of a stage (format detector, extractor,
\* classifier, indexer) is about to be invoked, the invocation's own ledger
\* record already has that stage as its stage and status processing.
C12_StagePersistedBeforeWork ==
    \A t \in Threads :
        inv[t].pc \in {"detect", "extract", "classify", "index"} =>
            /\ HasRecord(t)
            /\ OwnRecord(t).stage = StageAtPc(inv[t].pc)
            /\ OwnRecord(t).status = "processing"

\* An invocation is about to call the indexer, its record at stage indexing
C12_Witness ==
    \E t \in Threads :
        /\ inv[t].pc = "index"
        /\ OwnRecord(t).stage = "indexing"
        /\ OwnRecord(t).status = "processing"

\* C13: the ledger is keyed by attempt.  Every process_file call that gets a
\* record gets a new one with a fresh id, also when a record of the same path
\* exists; a record is changed only by a step of the invocation that created
\* it, and its filename and path never change.
C13_LedgerKeyedByAttempt ==
    [][ /\ Len(ledger') >= Len(ledger)
        /\ \A t \in Threads :
              inv[t].pc = "create" /\ inv'[t].log_id # 0 =>
                  /\ inv'[t].log_id = Len(ledger) + 1
                  /\ Len(ledger') = Len(ledger) + 1
                  /\ \A u \in Threads \ {t} : inv'[u].log_id # inv'[t].log_id
        /\ \A i \in 1..Len(ledger) :
              /\ ledger'[i].file_path = ledger[i].file_path
              /\ ledger'[i].filename = ledger[i].filename
              /\ ledger'[i] # ledger[i] =>
                    \E t \in Threads :
                        /\ inv[t].log_id = i /\ InFlight(t)
                        /\ inv'[t] # inv[t]
      ]_vars

\* Two calls on the same path have left two records, the second worked on
\* after the first had reached its end
C13_Witness ==
    /\ Len(ledger) = 2
    /\ ledger[1].file_path = ledger[2].file_path
    /\ ledger[1].status = "failed"
    /\ ledger[2].status = "completed"

\* C14: a modify event leads to a process_file invocation only when the size
\* sampled after the settle window equals the size sampled before it.  When
\* the size differs or the file has vanished the event is given up: no
\* invocation, no ledger record, nothing of the event kept; a later modify
\* event for the path goes through the same test again.
C14_ModifyNeedsStableSize ==
    [][ /\ (opc = "settle" /\ opc' = "call") =>
              /\ fs[ev.path].exists /\ fs[ev.path].size = size1
              /\ inv'["obs"].path = ev.path
        /\ (/\ opc = "settle" /\ opc' # "settle"
            /\ ~(fs[ev.path].exists /\ fs[ev.path].size = size1)) =>
              /\ opc' = "idle" /\ inv' = inv /\ ledger' = ledger
              /\ ev' = NoEvent /\ size1' = 0
              /\ queue' = queue
        /\ (/\ opc = "idle" /\ queue # <<>> /\ queue' = Tail(queue)
            /\ Head(queue).kind = "modified") =>
              /\ inv' = inv /\ ledger' = ledger
              /\ opc' = "settle" => ev' = Head(queue) /\ size1' = fs[ev'.path].size
      ]_vars

\* A modify event for a path was given up as unstable, and a later modify
\* event for the same path has started process_file
C14_Witness ==
    /\ opc = "call"
    /\ inv["obs"].origin = "event"
    /\ inv["obs"].path \in drop_log
    /\ inv["obs"].log_id # 0

\* C15: once the watcher has stopped, no invocation is running or starts, and
\* every invocation that was running when the shutdown began -- of the
\* startup scan or of an event -- has run to its end: none was cut off, and
\* every ledger record has status completed or failed.
C15_ShutdownCompletesInFlight ==
    /\ \A t \in Threads : inv[t].result # "interrupted"
    /\ mpc = "done" =>
          /\ \A t \in Threads : ~InFlight(t)
          /\ opc = "idle"
          /\ \A i \in 1..Len(ledger) : ledger[i].status \in {"completed", "failed"}

\* C16: a process_file call of the handler does not hold up the delivery of
\* events: while the handler is busy with one file, an event waiting for
\* another file can be delivered to the handler.
C16_DeliveryNotBlocked ==
    (/\ Dispatching /\ queue # <<>> /\ MayCall
     /\ opc # "idle"
     /\ Head(queue).path # inv["obs"].path /\ Head(queue).path # ev.path)
    => ENABLED (OnCreated \/ OnMoved \/ OnModified)

\* Every .pdf/.PDF file of the watch directory bears a marker
AllMatchingMarked ==
    \A p \in Paths : fs[p].exists /\ EndsWithAny(p, {".pdf", ".PDF"}) => p \in markers

\* C17: a startup scan over a directory whose matching files all bear markers
\* (left by an earlier scan) starts no process_file invocation, and, as long as
\* nothing else has happened in the directory, the ledger stays empty.
C17_ScanIdempotent ==
    AllMatchingMarked =>
        [](/\ inv["main"] = IdleFrame
           /\ mpc # "scan_call"
           /\ (env = 0 => ledger = <<>>))

\* The scan has run to its end over a directory whose two matching files are
\* both marked, with no call made and no ledger record
C17_Witness ==
    /\ mpc = "loop"
    /\ env = 0
    /\ AllMatchingMarked
    /\ \A p \in Paths : EndsWithAny(p, {".pdf", ".PDF"}) => fs[p].exists
    /\ inv["main"] = IdleFrame
    /\ stats.total_processed = 0
    /\ ledger = <<>>

\* C18: process_directory on a directory that does not exist ends at once with
\* success false and an error text and without a report: no file is
\* enumerated, process_file is never called, the ledger gets no record and no
\* per-file error is entered.
C18_MissingDirectoryRejected ==
    (mode = "batch" /\ ~dir_exists /\ mpc # "start") =>
        /\ mpc = "done"
        /\ results.success = "false"
        /\ results.error = "Directory does not exist"
        /\ results.total_files = 0 /\ results.successful = 0 /\ results.failed = 0
        /\ results.errors = <<>>
        /\ todo = <<>>
        /\ inv["main"] = IdleFrame
        /\ stats.total_processed = 0
        /\ ledger = <<>>

\* process_directory has returned for a directory that does not exist
C18_Witness ==
    /\ mode = "batch" /\ ~dir_exists
    /\ mpc = "done"
    /\ results.success = "false"

\* The enumerated files process_directory has done with
BatchVisited == results.successful + results.failed

\* C19: over an existing directory process_directory calls process_file once
\* for each enumerated file, whatever the earlier calls returned or raised:
\* every call is counted as successful or failed, each failed file has one
\* (file, error) entry, and at the end total_files = successful + failed.
C19_BatchReportAddsUp ==
    (mode = "batch" /\ dir_exists /\ mpc # "start") =>
        /\ BatchVisited + Len(todo) + (IF mpc = "batch_call" THEN 1 ELSE 0)
              = results.total_files
        /\ stats.total_processed + (IF inv["main"].pc = "create" THEN 1 ELSE 0)
              = BatchVisited + (IF mpc = "batch_call" THEN 1 ELSE 0)
        /\ Len(results.errors) = results.failed
        /\ \A i, j \in 1..Len(results.errors) :
              i # j => results.errors[i].file # results.errors[j].file
        /\ mpc = "done" =>
              /\ results.success = "true"
              /\ results.total_files = results.successful + results.failed
              /\ stats.total_processed = results.total_files

\* A batch over two files has ended; the first call raised, the second call
\* was made all the same and both are in the report
C19_Witness ==
    /\ mode = "batch" /\ mpc = "done"
    /\ results.total_files = 2
    /\ results.failed >= 1
    /\ results.errors[1].error = "exception"
    /\ stats.total_processed = 2
    /\ Len(results.errors) = results.failed

\* C20: a process_file call that failed or raised does not stop the watcher.
\* When the call of the startup scan is over, whatever its outcome, the scan
\* goes on with all the files it had left, and each of them that matches and
\* has no marker is handed to process_file; when the call of the event
\* handler is over, whatever its outcome, the handler is ready for the next
\* event and no queued event is lost.  The observer keeps running throughout.
C20_FailureDoesNotStopWatcher ==
    [][ /\ (mpc = "scan_call" /\ inv["main"].pc = "returned" /\ inv'["main"] # inv["main"])
           => mpc' = "scan" /\ todo' = todo /\ is_running'
        /\ (mpc = "scan" /\ todo # <<>> /\ todo' = Tail(todo)
            /\ EndsWithAny(Head(todo), {".pdf", ".PDF"}) /\ Head(todo) \notin markers)
           => inv'["main"] = CallFrame(Head(todo), "scan") /\ mpc' = "scan_call"
        /\ (opc = "call" /\ inv["obs"].pc = "returned" /\ inv'["obs"] # inv["obs"])
           => opc' = "idle" /\ queue' = queue /\ is_running'
        /\ is_running => is_running'
      ]_vars

\* The first call failed or raised, and the scan has handed the next file to
\* process_file all the same
C20_Witness ==
    /\ stats.total_processed = 1
    /\ stats.failed = 1
    /\ inv["main"].pc = "create" /\ inv["main"].origin = "scan"
    /\ inv["main"].path = <<"b", ".PDF">>
    /\ is_running

\* C21: process_file creates no ledger record for a path that does not exist
\* when the call begins.
C21_MissingPathNoRecord ==
    [][ \A t \in Threads :
            (inv[t].pc = "create" /\ ~fs[inv[t].path].exists /\ inv'[t].pc # "create")
            => ledger' = ledger
      ]_vars

\* C22: the watcher calls process_file only for names ending in .pdf or .PDF:
\* every invocation begun by the startup scan or by the event handler is on
\* such a name, in monitor mode every ledger record is of such a name, and
\* the scan passing, or the handler being given, any other name starts no
\* invocation and writes nothing to the ledger.
C22_WatcherOnlyAcceptedExtensions ==
    [][ /\ \A t \in Threads :
              inv'[t].origin \in {"scan", "event"} => inv'[t].path[2] \in {".pdf", ".PDF"}
        /\ mode = "monitor" =>
              \A i \in 1..Len(ledger') : ledger'[i].file_path[2] \in {".pdf", ".PDF"}
        /\ (mpc = "scan" /\ todo # <<>> /\ todo' = Tail(todo)
            /\ Head(todo)[2] \notin {".pdf", ".PDF"})
           => inv' = inv /\ ledger' = ledger /\ mpc' = "scan"
        /\ (opc = "idle" /\ queue # <<>> /\ queue' = Tail(queue)
            /\ Head(queue).kind # "modified"
            /\ Head(queue).path[2] \notin {".pdf", ".PDF"})
           => inv' = inv /\ ledger' = ledger /\ opc' = "idle"
        /\ (opc = "settle" /\ opc' # "settle" /\ ev.path[2] \notin {".pdf", ".PDF"})
           => inv' = inv /\ ledger' = ledger /\ opc' = "idle"
      ]_vars

\* The watcher has scanned the directory and handled an event for n.txt (the
\* file was written to while the watcher ran); no invocation, no record
C22_Witness ==
    /\ mode = "monitor" /\ mpc = "loop"
    /\ fs[<<"n", ".txt">>] = File(2)
    /\ queue = <<>> /\ opc = "idle"
    /\ stats.total_processed = 0
    /\ ledger = <<>>

\* The averaged scores of a detect_format call that got as far as deciding
Decided == /\ mode = "detect" /\ probe.out # NoOut
           /\ probe.opened /\ probe.pages >= 1

\* C23: for an opened document with at least one page detect_format decides
\* by four rules in order (scores in tenths, confidence in hundredths):
\* text > 0.5 and image < 0.3: machine_readable, confidence avg_text;
\* else image > 0.5 and text < 0.2: scanned, confidence avg_image;
\* else text > image: machine_readable, confidence 0.7 * avg_text;
\* else (ties too): scanned, confidence 0.7 * avg_image.  Never unknown.
C23_FourRulesInOrder ==
    Decided =>
        LET t == probe.avg_text
            i == probe.avg_image
            r1 == t > 5 /\ i < 3
            r2 == i > 5 /\ t < 2
            r3 == t > i
        IN /\ ~probe.out.raised
           /\ probe.out.type \in {"machine_readable", "scanned"}
           /\ r1 => probe.out.type = "machine_readable" /\ probe.out.confidence = 10 * t
           /\ (~r1 /\ r2) => probe.out.type = "scanned" /\ probe.out.confidence = 10 * i
           /\ (~r1 /\ ~r2 /\ r3) =>
                 probe.out.type = "machine_readable" /\ probe.out.confidence = 7 * t
           /\ (~r1 /\ ~r2 /\ ~r3) =>
                 probe.out.type = "scanned" /\ probe.out.confidence = 7 * i

\* The tie avg_text = avg_image = 0.6 has been decided: scanned, 0.42
C23_Witness ==
    /\ Decided
    /\ probe.avg_text = 6 /\ probe.avg_image = 6
    /\ probe.out.type = "scanned" /\ probe.out.confidence = 42

\* C24: detect_format never raises; a document without pages gives unknown
\* with confidence 0, and a file that cannot be opened or analysed gives
\* unknown with confidence 0 and the error in the details.
C24_DetectNeverThrows ==
    (mode = "detect" /\ probe.out # NoOut) =>
        /\ ~probe.out.raised
        /\ ~probe.opened =>
              /\ probe.out.type = "unknown" /\ probe.out.confidence = 0
              /\ probe.out.error # NoError
        /\ (probe.opened /\ probe.pages = 0) =>
              probe.out.type = "unknown" /\ probe.out.confidence = 0

\* detect_format has returned for a file that could not be opened
C24_Witness ==
    /\ mode = "detect" /\ probe.out # NoOut
    /\ ~probe.opened
    /\ probe.out.type = "unknown"

\* C25: when process_file fails a machine_readable document for empty or
\* blank text, the secondary extractor (PyMuPDF) has been tried: the result
\* that was judged is the secondary extractor's.
C25_BothExtractorsBeforeFailure ==
    \A t \in Threads :
        (/\ Returned(t)
         /\ inv[t].doctype = "machine_readable"
         /\ inv[t].error = "Text extraction failed or produced no text")
        => inv[t].method = "pymupdf"

\* C26: one process_file invocation calls one extractor, chosen by the format
\* decision: the step that leaves the extraction stage has called OCR exactly
\* when the decision is scanned and the native extractor exactly when it is
\* machine_readable; no extractor has been called before that step and none
\* is called after it, and an invocation whose format is not decided or is
\* unknown has called none.
C26_ExtractionRoutedByFormat ==
    [][ \A t \in Threads :
          /\ (inv[t].pc = "extract" /\ inv'[t].pc # "extract") =>
                /\ inv[t].method = ""
                /\ inv[t].doctype \in {"scanned", "machine_readable"}
                /\ inv[t].doctype = "scanned" <=> inv'[t].method = "ocr"
                /\ inv[t].doctype = "machine_readable" <=>
                      inv'[t].method \in {"pdfminer", "pymupdf"}
          /\ (inv[t].pc # "extract" /\ inv'[t].method # inv[t].method) =>
                inv'[t].pc \in {"idle", "create"} /\ inv'[t].method = ""
          /\ inv'[t].doctype \notin {"scanned", "machine_readable"} => inv'[t].method = ""
      ]_vars

\* A machine_readable document has gone through the native extractor and is
\* completed, and the next, scanned, document has gone through OCR
C26_Witness ==
    /\ Len(ledger) = 2
    /\ ledger[1].document_type = "machine_readable" /\ ledger[1].status = "completed"
    /\ inv["main"].log_id = 2
    /\ inv["main"].doctype = "scanned" /\ inv["main"].method = "ocr"
    /\ inv["main"].pc = "classify"

C28_IndexGetRoundTrip ==
    [][ \A t \in Threads :
          (inv[t].pc = "index" /\ inv'[t].pc = "final") =>
             LET doc == GetDocumentById(es_docs', is_connected, GenerateDocumentId(inv[t].path))
             IN /\ doc # NoDoc
                /\ doc.content = inv[t].text
      ]_vars

\* A text of two blank pages has been indexed and is what the index returns
C28_Witness ==
    /\ inv["main"].pc = "final" /\ inv["main"].index_ok
    /\ inv["main"].text = PageBreak
    /\ GetDocumentById(es_docs, is_connected, inv["main"].es_id).content = PageBreak

C30_LedgerAppendOnly ==
    [][ /\ Len(ledger') >= Len(ledger)
        /\ \A i \in 1..Len(ledger) :
              /\ ledger'[i].filename = ledger[i].filename
              /\ ledger'[i].file_path = ledger[i].file_path
        /\ \A t \in Threads :
              (inv[t].log_id # 0 /\ inv'[t].log_id = inv[t].log_id /\ HasRecord(t)) =>
                 ledger'[inv[t].log_id].file_path = inv[t].path
      ]_vars

\* The first record has been taken through all its updates to completed and
\* a second record is being worked on; both carry the paths they were created with
C30_Witness ==
    /\ Len(ledger) = 2
    /\ ledger[1].status = "completed"
    /\ ledger[1].file_path = <<"a", ".pdf">> /\ ledger[1].filename = Basename(<<"a", ".pdf">>)
    /\ ledger[2].status = "processing"
    /\ ledger[2].file_path = <<"b", ".PDF">>

\* C31: under every interleaving of the startup scan's and the observer
\* thread's invocations a ledger record is changed only by the invocation
\* that created it: no two invocations hold the same record, a step changes
\* at most one record, and the record a step changes is the one created by
\* the invocation taking the step.
C31_RecordOwnedByCreator ==
    [][ /\ \A t \in Threads, u \in Threads :
              (t # u /\ inv[t].log_id # 0) => inv[t].log_id # inv[u].log_id
        /\ \A i \in 1..Len(ledger) :
              ledger'[i] # ledger[i] =>
                 /\ \A j \in 1..Len(ledger) : j # i => ledger'[j] = ledger[j]
                 /\ \E t \in Threads :
                       /\ inv[t].log_id = i
                       /\ inv[t].path = ledger[i].file_path
                       /\ inv'[t] # inv[t]
                       /\ \A u \in Threads \ {t} : inv'[u] = inv[u]
      ]_vars

\* The scan's invocation and the observer's invocation are in flight at the
\* same time, each on its own record at its own stage
C31_Witness ==
    /\ InFlight("main") /\ InFlight("obs")
    /\ inv["main"].log_id # 0 /\ inv["obs"].log_id # 0
    /\ OwnRecord("main").stage = "classification"
    /\ OwnRecord("obs").stage = "text_extraction"

\* The stages of a record in their order
StageOrder == <<"format_detection", "text_extraction", "classification", "indexing", "completed">>
StageRank(stage) == CHOOSE k \in 1..Len(StageOrder) : StageOrder[k] = stage
\* The positions of process_file in the order the code passes them
PcOrder == <<"create", "stage1", "detect", "extract", "classify", "index", "final", "mark",
             "handler", "returned">>
PcRank(pc) == CHOOSE k \in 1..Len(PcOrder) : PcOrder[k] = pc

\* C32: a record starts at format_detection and its stage only moves forward,
\* one stage at a time, along format_detection, text_extraction,
\* classification, indexing, completed; and an invocation passes through
\* process_file once, from top to bottom: it never returns to an earlier
\* point, and from its first step to its return its frame is never put aside.
C32_StagesForwardOnly ==
    [][ /\ \A i \in 1..Len(ledger') :
              /\ ledger'[i].stage \in {StageOrder[k] : k \in 1..Len(StageOrder)}
              /\ i > Len(ledger) => ledger'[i].stage = "format_detection"
        /\ \A i \in 1..Len(ledger) :
              ledger'[i].stage # ledger[i].stage =>
                 StageRank(ledger'[i].stage) = StageRank(ledger[i].stage) + 1
        /\ \A t \in Threads :
              (InFlight(t) /\ inv'[t] # inv[t]) =>
                 /\ inv'[t].path = inv[t].path
                 /\ PcRank(inv'[t].pc) > PcRank(inv[t].pc)
      ]_vars

\* One record has passed all stages, the next has arrived at indexing
C32_Witness ==
    /\ Len(ledger) = 2
    /\ ledger[1].stage = "completed"
    /\ ledger[2].stage = "indexing" /\ ledger[2].status = "processing"
    /\ inv["main"].pc = "index"

\* C33: a path whose attempts have all failed stays eligible.  A failed
\* attempt leaves no marker; and for a matching path without a marker the
\* startup scan that visits it calls process_file, the handler of a created
\* or moved event for it (the file there and readable) calls process_file,
\* the handler of a modify event whose settle window found it stable calls
\* process_file, and the call appends a new record to a ledger that commits.
C33_FailedStaysEligible ==
    \A p \in Paths :
       LET failed == \E i \in 1..Len(ledger) :
                        ledger[i].file_path = p /\ ledger[i].status = "failed"
           completed == \E i \in 1..Len(ledger) :
                           ledger[i].file_path = p /\ ledger[i].status = "completed"
           unmarked == EndsWithAny(p, supported_extensions) /\ p \notin markers
       IN /\ (mode = "monitor" /\ failed /\ ~completed) => p \notin markers
          /\ (unmarked /\ mpc = "scan" /\ todo # <<>> /\ Head(todo) = p /\ MayCall) =>
                ENABLED (ScanVisit /\ inv'["main"] = CallFrame(p, "scan"))
          /\ (unmarked /\ Dispatching /\ opc = "idle" /\ queue # <<>> /\ Head(queue).path = p
                /\ Head(queue).kind \in {"created", "moved"} /\ fs[p].exists /\ MayCall) =>
                ENABLED ((OnCreated \/ OnMoved) /\ inv'["obs"] = CallFrame(p, "event"))
          /\ (unmarked /\ opc = "settle" /\ ev.path = p /\ IsFileStable(size1, fs[p]) /\ MayCall) =>
                ENABLED (OnModifiedSettled /\ inv'["obs"] = CallFrame(p, "event"))
          /\ \A t \in Threads :
                (inv[t].pc = "create" /\ inv[t].path = p /\ db_up) =>
                   ENABLED (PfCreate(t) /\ Len(ledger') = Len(ledger) + 1
                                        /\ ledger'[Len(ledger')].file_path = p
                                        /\ ledger'[Len(ledger')].status = "pending")

\* a.pdf failed once and has no marker; the scan, which now comes to it,
\* has called process_file again and the second record is there
C33_Witness ==
    /\ Len(ledger) = 2
    /\ ledger[1].file_path = <<"a", ".pdf">> /\ ledger[1].status = "failed"
    /\ ledger[2].file_path = <<"a", ".pdf">> /\ ledger[2].status = "pending"
    /\ inv["main"].origin = "scan" /\ inv["main"].log_id = 2
    /\ <<"a", ".pdf">> \notin markers

\* C34: the terminal statuses are absorbing.  In every step, a record whose
\* status is completed or failed keeps its status, stage, error message and
\* index id (and every other column).
C34_TerminalAbsorbing ==
    [][ \A i \in 1..Len(ledger) :
           ledger[i].status \in {"completed", "failed"} =>
              /\ i <= Len(ledger')
              /\ ledger'[i].status = ledger[i].status
              /\ ledger'[i].stage = ledger[i].stage
              /\ ledger'[i].error_message = ledger[i].error_message
              /\ ledger'[i].elasticsearch_id = ledger[i].elasticsearch_id
              /\ ledger'[i] = ledger[i]
      ]_vars

\* A call has returned success although its marker could not be written: its
\* record is completed, and a second record has been failed after it
C34_Witness ==
    /\ Len(ledger) = 2
    /\ ledger[1].status = "completed" /\ ledger[1].elasticsearch_id # NoId
    /\ ledger[2].status = "failed"
    /\ \E t \in Threads : inv[t].log_id = 1 /\ inv[t].marker = "failed" /\ Returned(t)

\* C35: the ledger comes before the marker.  Whenever a step writes the
\* marker of a path, the ledger already holds a record for that path with
\* status completed and still holds it after the step; and a call that has
\* written its marker has a completed record of its own for its path.
C35_LedgerBeforeMarker ==
    [][ /\ \A p \in markers' \ markers :
              \E i \in 1..Len(ledger) :
                 /\ ledger[i].file_path = p /\ ledger[i].status = "completed"
                 /\ ledger'[i].file_path = p /\ ledger'[i].status = "completed"
        /\ \A t \in Threads :
              inv'[t].marker = "written" =>
                 /\ inv'[t].log_id \in 1..Len(ledger')
                 /\ ledger'[inv'[t].log_id].file_path = inv'[t].path
                 /\ ledger'[inv'[t].log_id].status = "completed"
                 /\ inv'[t].path \in markers'
      ]_vars

\* A call has written the marker of b.PDF after the database went down: its
\* completed record was committed before
C35_Witness ==
    /\ inv["main"].marker = "written" /\ inv["main"].path = <<"b", ".PDF">>
    /\ <<"b", ".PDF">> \in markers
    /\ ~db_up
    /\ ledger[inv["main"].log_id].status = "completed"

\* C36: whenever no process_file call is in flight, the counters add up:
\* total_processed = successful + failed.
C36_CountersAddUp ==
    (\A t \in Threads : ~InFlight(t)) =>
        stats.total_processed = stats.successful + stats.failed

\* C37: the events of a marker file never lead to process_file.  No call is
\* ever made on a name that ends in .processed and no record has such a
\* path; the handler that takes a marker file's created event from the queue
\* returns at once, and the one that takes its modify event waits out the
\* settle window and returns: neither changes a call, the ledger or the
\* counters.
C37_MarkerEventsIgnored ==
    [][ /\ \A t \in Threads :
              inv'[t].path[Len(inv'[t].path)] # PROCESSED_EXTENSION
        /\ \A i \in 1..Len(ledger') :
              ledger'[i].file_path[Len(ledger'[i].file_path)] # PROCESSED_EXTENSION
        /\ (/\ opc = "idle" /\ queue # <<>> /\ queue' = Tail(queue)
            /\ Head(queue).path \notin Paths) =>
              /\ UNCHANGED <<inv, ledger, stats, markers>>
              /\ opc' = IF Head(queue).kind = "modified" THEN "settle" ELSE "idle"
        /\ (opc = "settle" /\ ev.path \notin Paths /\ opc' # "settle") =>
              /\ UNCHANGED <<inv, ledger, stats, markers>>
              /\ opc' = "idle"
      ]_vars

\* The marker of a.pdf has been written; the handler has returned from its
\* created event and from its modify event, and one record is all there is
C37_Witness ==
    /\ <<"a", ".pdf">> \in markers
    /\ \E t \in Threads : inv[t].marker = "written" /\ inv[t].path = <<"a", ".pdf">>
    /\ is_running /\ queue = <<>> /\ opc = "idle" /\ ev = NoEvent
    /\ Len(ledger) = 1 /\ stats.total_processed = 1

\* C38: created and moved events are not debounced.  The handler that takes
\* such an event from the queue never enters the settle window: in that one
\* step it either returns or has called process_file, once, on the event's
\* path; and for a matching, unmarked, existing path the call can be made.
C38_CreatedNotDebounced ==
    [][ (/\ opc = "idle" /\ queue # <<>> /\ queue' = Tail(queue)
         /\ Head(queue).kind \in {"created", "moved"}) =>
           /\ opc' \in {"idle", "call"}
           /\ ev' = ev /\ size1' = size1
           /\ inv'["main"] = inv["main"]
           /\ opc' = "call" => inv'["obs"] = CallFrame(Head(queue).path, "event")
           /\ opc' = "idle" => inv'["obs"] = inv["obs"]
           /\ (/\ EndsWithAny(Head(queue).path, supported_extensions)
               /\ Head(queue).path \notin markers
               /\ FileAt(Head(queue).path).exists
               /\ MayCall) =>
                 ENABLED ((OnCreated \/ OnMoved) /\ opc' = "call")
      ]_vars

\* a.pdf arrived with size 1 and its created event started a call at once;
\* its writer went on to size 2 while the call ran, and the call has marked
\* the file complete with the size of the unfinished file in its record
C38_Witness ==
    /\ inv["obs"].path = <<"a", ".pdf">> /\ inv["obs"].origin = "event"
    /\ inv["obs"].result = "success" /\ inv["obs"].marker = "written"
    /\ ledger[inv["obs"].log_id].status = "completed"
    /\ ledger[inv["obs"].log_id].file_size = 1
    /\ fs[<<"a", ".pdf">>] = File(2)
    /\ \E i \in 1..Len(queue) : queue[i] = [kind |-> "modified", path |-> <<"a", ".pdf">>]

\* C39 as stated: with an indexer whose constructor did not connect, every
\* process_file call that has ended has a record that is failed at stage
\* indexing.
C39_EveryCallFailsAtIndexing ==
    ~is_connected =>
        \A t \in Threads :
           Returned(t) =>
              /\ inv[t].log_id \in 1..Len(ledger)
              /\ ledger[inv[t].log_id].status = "failed"
              /\ ledger[inv[t].log_id].stage = "indexing"

\* C39, amended: is_connected is set by the constructor only.  With an
\* indexer that did not connect, the index is never contacted, whatever its
\* state at the time of the call; every call that reaches the indexing step
\* leaves it with the failure return and its record failed at stage
\* indexing (or in the except handler, when the ledger does not commit); no
\* call succeeds, no record is completed and no marker is written.
C39_LatchedDisconnected ==
    [][ /\ is_connected' = is_connected
        /\ ~is_connected =>
              /\ es_docs' = es_docs
              /\ markers' = markers
              /\ \A t \in Threads :
                    /\ inv'[t].result # "success"
                    /\ inv'[t].pc \notin {"final", "mark"}
                    /\ (inv[t].pc = "index" /\ inv'[t] # inv[t]) =>
                          \/ /\ db_up
                             /\ inv'[t].pc = "returned" /\ inv'[t].result = "failure"
                             /\ inv'[t].error = "Elasticsearch indexing failed"
                             /\ ledger'[inv[t].log_id].status = "failed"
                             /\ ledger'[inv[t].log_id].stage = "indexing"
                          \/ /\ ~db_up
                             /\ inv'[t].pc = "handler" /\ ledger' = ledger
              /\ \A i \in 1..Len(ledger') : ledger'[i].status # "completed"
      ]_vars

\* Two calls on a processor whose indexer did not connect: both reached the
\* indexing step and both records are failed at stage indexing, nothing is
\* in the index and nothing is marked
C39_Witness ==
    /\ ~is_connected
    /\ Len(ledger) = 2
    /\ \A i \in 1..2 : ledger[i].status = "failed" /\ ledger[i].stage = "indexing"
    /\ es_docs = <<>>
    /\ markers = {}

\* C40: the watcher and the batch runner accept the same file names: the
\* handler's test and the startup scan's test accept a name exactly when
\* process_directory's test does.
C40_SameNamesAccepted ==
    (mode = "accept" /\ probe.out # NoOut) =>
        /\ probe.out.handler = probe.out.batch
        /\ probe.out.scan = probe.out.batch

====
